---- MODULE Spec2Model ----
(***************************************************************************)
(* Model of the recommendation service: the two-tier preference cache     *)
(* (Redis "preference:{user}" in front of the user_preferences table),    *)
(* the preference computation, and the Kafka event consumer that mutates  *)
(* posts and reactions.                                                   *)
(*                                                                         *)
(* Every await on PostgreSQL or Redis inside get_user_preference_embedding *)
(* is one step of a request, so concurrent requests, the consumer and     *)
(* invalidations interleave at exactly the points where the coroutines    *)
(* can be suspended.                                                      *)
(***************************************************************************)
EXTENDS Integers, Sequences, FiniteSets, TLC

\* ---------------------------------------------------------------- bounds
NumPosts == 1
NumReactions == 1
NumReqs == 2
MaxStream == 3
MaxRedeliveries == 1
\* The posts and reactions of the tables the computation is applied to.
NumComputePosts == 3
NumComputeReactions == 4
NumRankPosts == 2
MaxLimit == 2

\* ---------------------------------------------------------------- domains
\* The users whose preference is requested, and the authors of posts and
\* reactions.
Users == {"u1"}
Authors == {"u1", "u2"}
PostIds == 1..NumPosts
ReactionIds == 1..NumReactions
Reqs == 1..NumReqs

\* Python None in a vector-valued slot (never equal to a vector of length D).
None == <<"None">>
\* payload.get('text') when the payload carries no text.
NoText == "None"
Texts == {NoText, "", "a", "b"}
LIKE == "LIKE"
DISLIKE == "DISLIKE"
ReactionTypes == {LIKE, DISLIKE}
\* ReactionTargetType.POST.value
POST == "POST"

\* settings.WEIGHT_LIKE_BOOST and settings.WEIGHT_DISLIKE_PENALTY, in tenths.
WEIGHT_LIKE_BOOST == 3
WEIGHT_DISLIKE_PENALTY == 1

\* ------------------------------------------------------------ vector math
\* Vectors have dimension 2 and integer coordinates.  A vector divided by
\* its norm is represented by the primitive integer vector of the same
\* direction (coordinates divided by their gcd): two vectors normalize to
\* the same unit vector exactly when these representatives are equal.
Zero == <<0, 0>>

Abs(n) == IF n < 0 THEN -n ELSE n

RECURSIVE Gcd(_, _)
Gcd(a, b) == IF b = 0 THEN a ELSE Gcd(b, a % b)

VecAdd(v, w) == <<v[1] + w[1], v[2] + w[2]>>
VecSub(v, w) == <<v[1] - w[1], v[2] - w[2]>>
VecScale(k, v) == <<k * v[1], k * v[2]>>

\* norm > 0
NormPositive(v) == v # Zero

\* preference_embedding / norm
Normalize(v) ==
    LET g == Gcd(Abs(v[1]), Abs(v[2]))
    IN  <<v[1] \div g, v[2] \div g>>

\* The sum of the vectors of a function id -> vector.
RECURSIVE VecSum(_)
VecSum(f) ==
    IF DOMAIN f = {} THEN Zero
    ELSE LET i == CHOOSE j \in DOMAIN f : TRUE
         IN  VecAdd(f[i], VecSum([j \in DOMAIN f \ {i} |-> f[j]]))

\* embedding_model.encode(text)[0]: a deterministic vector per text.
Encode(text) ==
    CASE text = "a" -> <<1, 0>>
      [] text = "b" -> <<0, 1>>
      [] OTHER -> Zero

\* `if text:` is false for None and for the empty string.
Truthy(text) == text # NoText /\ text # ""

\* cache_key = f"recommendations:{user_id}"; the keys preference:{user_id}
\* are written as the bare user_id.
RecKey(user_id) == "recommendations:" \o user_id

\* embedding.astype(np.float32).tobytes() and np.frombuffer(.., float32)
ToBytes(v) == [dtype |-> "float32", data |-> v]
FromBuffer(b) == b.data

\* ------------------------------------------------- preference computation
\* select(Reaction).where(author_id == user_id, target_type == 'POST')
UserReactions(user_id, R) ==
    {i \in DOMAIN R : R[i].author_id = user_id /\ R[i].target_type = POST}

\* [r.target_id for r in reactions if r.type == type]
TargetIds(rs, R, type) == {R[i].target_id : i \in {j \in rs : R[j].type = type}}

\* A query that returns every post of ids that exists, a post without an
\* embedding as the zero vector.
PostEmbeddingsZeroFilled(ids, P) ==
    [i \in ids \cap DOMAIN P |->
        IF P[i].embedding = None THEN Zero ELSE P[i].embedding]

\* select(Post).where(Post.id.in_(ids), Post.embedding.isnot(None)),
\* kept as id -> embedding
PostEmbeddings(ids, P) ==
    [i \in {j \in ids \cap DOMAIN P : P[j].embedding # None} |-> P[i].embedding]

Count(f) == Cardinality(DOMAIN f)
AtLeastOne(n) == IF n = 0 THEN 1 ELSE n

\* The weighted difference of the two means, scaled by the positive factor
\* 10 * len(liked) * len(disliked) so that it stays an integer vector.
WeightedDifference(liked, disliked) ==
    VecSub(VecScale(WEIGHT_LIKE_BOOST * AtLeastOne(Count(disliked)), VecSum(liked)),
           VecScale(WEIGHT_DISLIKE_PENALTY * AtLeastOne(Count(liked)), VecSum(disliked)))

\* Lines 196-217 of _compute_preference_embedding, on the embeddings read.
CombineEmbeddings(liked, disliked) ==
    IF Count(liked) = 0 /\ Count(disliked) = 0 THEN None
    ELSE LET v == WeightedDifference(liked, disliked)
         IN  IF NormPositive(v) THEN Normalize(v) ELSE v

\* _compute_preference_embedding evaluated on one state of the tables.
ComputePreference(user_id, R, P) ==
    LET rs == UserReactions(user_id, R)
    IN  IF rs = {} THEN None
        ELSE CombineEmbeddings(PostEmbeddings(TargetIds(rs, R, LIKE), P),
                               PostEmbeddings(TargetIds(rs, R, DISLIKE), P))

\* ------------------------------------------------------------ the tables
\* A table is a function from the primary keys of its rows to the rows.
Without(T, k) == [i \in DOMAIN T \ {k} |-> T[i]]
With(T, k, row) == [i \in DOMAIN T \cup {k} |-> IF i = k THEN row ELSE T[i]]

Db(P, R, U) == [posts |-> P, reactions |-> R, prefs |-> U]

\* What one handler run did: the tables it leaves, whether it committed a
\* change of posts/reactions, whether invalidate_user_preference ran to
\* completion, and the exception that ended it ("none" if it returned).
Outcome(db, changed, invalidated, error) ==
    [db |-> db, changed |-> changed, invalidated |-> invalidated, error |-> error]

\* A row whose embedding is encoded from the text whatever the text is.
PostRowAlwaysEncoded(payload) ==
    [author_id |-> payload.authorId,
     text |-> payload.text,
     embedding |-> Encode(payload.text)]

\* Post(id=.., author_id=.., text=.., embedding=..); session.add; commit
PostRow(payload) ==
    [author_id |-> payload.authorId,
     text |-> payload.text,
     embedding |-> IF Truthy(payload.text) THEN Encode(payload.text) ELSE None]

\* INSERT INTO reactions: target_type, target_id, author_id and type are
\* NOT NULL and id is the primary key; a violation raises IntegrityError at
\* commit and stores nothing.
CanInsertReaction(R, id, row) == id \notin DOMAIN R /\ row.target_type # NoText

\* Reaction(id, target_id, author_id, type, created_at) as the consumer
\* builds it: target_type is not given, so it is NULL in the INSERT.
ConsumerReactionRow(payload) ==
    [target_id |-> payload.targetId,
     author_id |-> payload.authorId,
     type |-> payload.type,
     target_type |-> NoText]

\* Reaction(...) as RecommendationService.create_reaction builds it.
ServiceReactionRow(data) ==
    [target_id |-> data.target_id,
     author_id |-> data.author_id,
     type |-> data.type,
     target_type |-> data.target_type]

\* ------------------------------------------- invalidate_user_preference
\* A statement that deletes the row of the user when there is one and
\* inserts an empty row when there is none.
InvalidateUserPreferenceRowsToggle(U, user_id) ==
    IF user_id \in DOMAIN U THEN Without(U, user_id)
    ELSE With(U, user_id, [preference_embedding |-> None])

\* DELETE FROM user_preferences WHERE user_id = :user_id; commit
InvalidateUserPreferenceRows(U, user_id) == Without(U, user_id)

\* The parameters of invalidate_user_preference after self.
InvalidateParams == <<"user_id", "session">>

\* The positional arguments the consumer passes:
\* (author_id, session, recommendation_service.redis_client)
ConsumerInvalidateArgs(author_id) == <<author_id, "session", "redis_client">>

\* Python binds positional arguments to parameters one to one; any other
\* number of arguments raises TypeError before the body runs.
CallBinds(params, args) == Len(args) = Len(params)

\* await recommender.invalidate_user_preference(*args), after the commit of
\* the reaction change that left the tables as db.
CallInvalidate(db, args) ==
    IF CallBinds(InvalidateParams, args)
    THEN Outcome(Db(db.posts, db.reactions,
                    InvalidateUserPreferenceRows(db.prefs, args[1])),
                 TRUE, TRUE, "none")
    ELSE Outcome(db, TRUE, FALSE, "TypeError")

\* ------------------------------------------------------ consumer handlers
HandlePostCreated(db, payload) ==
    IF payload.id \in DOMAIN db.posts
    THEN Outcome(db, FALSE, FALSE, "none")
    ELSE Outcome(Db(With(db.posts, payload.id, PostRow(payload)),
                    db.reactions, db.prefs), TRUE, FALSE, "none")

\* A handler that stores the post of the payload when the id is not stored.
HandlePostUpdatedUpsert(db, payload) ==
    Outcome(Db(With(db.posts, payload.id, PostRow(payload)), db.reactions, db.prefs),
            TRUE, FALSE, "none")

HandlePostUpdated(db, payload) ==
    IF payload.id \notin DOMAIN db.posts
    THEN Outcome(db, FALSE, FALSE, "none")
    ELSE LET post == db.posts[payload.id]
             new == [post EXCEPT !.text = payload.text,
                                 !.embedding = IF Truthy(payload.text)
                                               THEN Encode(payload.text)
                                               ELSE None]
         IN  Outcome(Db(With(db.posts, payload.id, new), db.reactions, db.prefs),
                     TRUE, FALSE, "none")

\* A handler that, with the post, deletes the stored preferences of the
\* users who reacted to it.
HandlePostDeletedInvalidates(db, payload) ==
    IF payload.id \in DOMAIN db.posts
    THEN LET reacted == {db.reactions[j].author_id :
                           j \in {k \in DOMAIN db.reactions :
                                    db.reactions[k].target_id = payload.id}}
             kept == [u \in DOMAIN db.prefs \ reacted |-> db.prefs[u]]
         IN  Outcome(Db(Without(db.posts, payload.id), db.reactions, kept),
                     TRUE, FALSE, "none")
    ELSE Outcome(db, FALSE, FALSE, "none")

HandlePostDeleted(db, payload) ==
    IF payload.id \in DOMAIN db.posts
    THEN Outcome(Db(Without(db.posts, payload.id), db.reactions, db.prefs),
                 TRUE, FALSE, "none")
    ELSE Outcome(db, FALSE, FALSE, "none")

HandleReactionCreated(db, payload) ==
    IF payload.id \in DOMAIN db.reactions
    THEN Outcome(db, FALSE, FALSE, "none")
    ELSE LET row == ConsumerReactionRow(payload)
         IN  IF CanInsertReaction(db.reactions, payload.id, row)
             THEN CallInvalidate(Db(db.posts, With(db.reactions, payload.id, row),
                                    db.prefs),
                                 ConsumerInvalidateArgs(payload.authorId))
             ELSE Outcome(db, FALSE, FALSE, "IntegrityError")

\* A handler that flips the stored reaction type on every delivery instead
\* of storing the type of the payload.
HandleReactionUpdatedToggle(db, payload) ==
    IF payload.id \notin DOMAIN db.reactions
    THEN Outcome(db, FALSE, FALSE, "none")
    ELSE LET old == db.reactions[payload.id]
             new == [old EXCEPT !.type = IF old.type = LIKE THEN DISLIKE ELSE LIKE]
         IN  CallInvalidate(Db(db.posts, With(db.reactions, payload.id, new),
                               db.prefs),
                            ConsumerInvalidateArgs(payload.authorId))

HandleReactionUpdated(db, payload) ==
    IF payload.id \notin DOMAIN db.reactions
    THEN Outcome(db, FALSE, FALSE, "none")
    ELSE LET new == [db.reactions[payload.id] EXCEPT !.type = payload.type]
         IN  CallInvalidate(Db(db.posts, With(db.reactions, payload.id, new),
                               db.prefs),
                            ConsumerInvalidateArgs(payload.authorId))

\* A handler that calls the invalidation before it deletes and commits.
HandleReactionDeletedInvalidateFirst(db, payload) ==
    IF payload.id \in DOMAIN db.reactions
    THEN LET inv == CallInvalidate(db, ConsumerInvalidateArgs(payload.authorId))
         IN  IF inv.error # "none"
             THEN Outcome(db, FALSE, FALSE, inv.error)
             ELSE Outcome(Db(db.posts, Without(db.reactions, payload.id),
                             inv.db.prefs), TRUE, TRUE, "none")
    ELSE Outcome(db, FALSE, FALSE, "none")

HandleReactionDeleted(db, payload) ==
    IF payload.id \in DOMAIN db.reactions
    THEN CallInvalidate(Db(db.posts, Without(db.reactions, payload.id), db.prefs),
                        ConsumerInvalidateArgs(payload.authorId))
    ELSE Outcome(db, FALSE, FALSE, "none")

\* The routing of _consume; an exception of a handler is caught and logged
\* there, and the loop goes on with the next message.
HandleEvent(db, event) ==
    CASE event.eventType = "post.created" -> HandlePostCreated(db, event.payload)
      [] event.eventType = "post.updated" -> HandlePostUpdated(db, event.payload)
      [] event.eventType = "post.deleted" -> HandlePostDeleted(db, event.payload)
      [] event.eventType = "reaction.created" -> HandleReactionCreated(db, event.payload)
      [] event.eventType = "reaction.updated" -> HandleReactionUpdated(db, event.payload)
      [] event.eventType = "reaction.deleted" -> HandleReactionDeleted(db, event.payload)
      [] OTHER -> Outcome(db, FALSE, FALSE, "none")

\* The events of the two topics, with the texts drawn from a given set.
PostEvents(texts) ==
    [eventType : {"post.created", "post.updated"},
     payload : [id : PostIds, authorId : Authors, text : texts]]
    \cup [eventType : {"post.deleted"}, payload : [id : PostIds]]

ReactionEvents ==
    [eventType : {"reaction.created"},
     payload : [id : ReactionIds, authorId : Authors, targetId : PostIds,
                type : ReactionTypes]]
    \cup [eventType : {"reaction.updated"},
          payload : [id : ReactionIds, authorId : Authors, type : ReactionTypes]]
    \cup [eventType : {"reaction.deleted"},
          payload : [id : ReactionIds, authorId : Authors]]

\* The messages the consumer is given while calls are in progress: one
\* text with an embedding and the absent text.
Events == PostEvents({NoText, "a"}) \cup ReactionEvents

\* ------------------------------------------------------------------ state
VARIABLES
    posts,        \* table posts: id -> row
    reactions,    \* table reactions: id -> row
    prefRows,     \* table user_preferences: user_id -> row
    redis,        \* Redis keys preference:{user_id}: user_id -> bytes
    req,          \* the calls of get_user_preference_embedding in progress
    lastOp,       \* history: per user, what last touched the user's signal
    preInv,       \* history: per user, the vectors held when last invalidated
    stream,       \* the messages of the topics, in delivery order
    offset,       \* how many messages of stream the consumer has handled
    redeliveries, \* how often the consumer was set back to an earlier offset
    delivered     \* history: how often each message of stream was handled

vars == <<posts, reactions, prefRows, redis, req, lastOp, preInv,
          stream, offset, redeliveries, delivered>>

contentVars == <<posts, reactions>>
streamVars == <<stream, offset, redeliveries, delivered>>

Empty == [i \in {} |-> None]

\* A call that has not started.
IdleReq ==
    [pc |-> "idle", user_id |-> "-", redis_client |-> FALSE,
     liked_post_ids |-> {}, disliked_post_ids |-> {},
     liked_embeddings |-> Empty, disliked_embeddings |-> Empty,
     preference_embedding |-> None, user_pref |-> FALSE,
     result |-> None, path |-> "-", error |-> "none",
     afterInv |-> FALSE, dirty |-> FALSE, raced |-> FALSE, persisted |-> FALSE,
     noSignal |-> FALSE,
     limit |-> 0, exclude_author_posts |-> FALSE, recs |-> <<>>, scores |-> <<>>]

Init ==
    /\ posts = Empty
    /\ reactions = Empty
    /\ prefRows = Empty
    /\ redis = Empty
    /\ req = [r \in Reqs |-> IdleReq]
    /\ lastOp = [u \in Users |-> "none"]
    /\ preInv = [u \in Users |-> {}]
    /\ stream = <<>>
    /\ offset = 0
    /\ redeliveries = 0
    /\ delivered = <<>>

\* ------------------------------------- get_user_preference_embedding
\* return value; the coroutine is finished
Finish(r, rec, value, path) ==
    req' = [req EXCEPT ![r] =
               [IdleReq EXCEPT !.pc = "done", !.user_id = rec.user_id,
                               !.redis_client = rec.redis_client,
                               !.result = value, !.path = path,
                               !.afterInv = rec.afterInv, !.dirty = rec.dirty,
                               !.raced = rec.raced, !.persisted = rec.persisted,
                               !.noSignal = rec.noSignal]]

\* an exception leaves the coroutine
Raise(r, rec, error) ==
    req' = [req EXCEPT ![r] =
               [IdleReq EXCEPT !.pc = "done", !.user_id = rec.user_id,
                               !.redis_client = rec.redis_client,
                               !.path = rec.path, !.error = error]]

\* The slots of the calls are interchangeable: a call starts in the lowest
\* free slot.
LowestFree(r) == \A q \in Reqs : q < r => req[q].pc # "idle"

\* A call that reads the key and goes on to the SELECT of the row whatever
\* the key holds.
GetFromRedisThenSelect(r, user_id) ==
    /\ req[r].pc = "idle"
    /\ LowestFree(r)
    /\ req' = [req EXCEPT ![r] =
                   [req[r] EXCEPT !.pc = "select_pref", !.user_id = user_id,
                                  !.redis_client = TRUE,
                                  !.afterInv = (lastOp[user_id] = "invalidated"),
                                  !.noSignal = (UserReactions(user_id, reactions) = {})]]
    /\ UNCHANGED <<posts, reactions, prefRows, redis, lastOp, preInv, streamVars>>

\* Lines 88-91: the call starts with a Redis client and reads the key.
GetFromRedis(r, user_id) ==
    /\ req[r].pc = "idle"
    /\ LowestFree(r)
    /\ LET rec == [req[r] EXCEPT !.user_id = user_id, !.redis_client = TRUE,
                                 !.afterInv = (lastOp[user_id] = "invalidated"),
                                 !.noSignal = (UserReactions(user_id, reactions) = {})]
       IN  IF user_id \in DOMAIN redis
           THEN Finish(r, rec, FromBuffer(redis[user_id]), "redis")
           ELSE req' = [req EXCEPT ![r] = [rec EXCEPT !.pc = "select_pref"]]
    /\ UNCHANGED <<posts, reactions, prefRows, redis, lastOp, preInv, streamVars>>

\* Lines 94-115 on the row read: return it (through the Redis write when
\* there is a client), or go on to compute.
AfterSelectPref(r, rec) ==
    LET u == rec.user_id
    IN  IF u \in DOMAIN prefRows /\ prefRows[u].preference_embedding # None
        THEN LET e == prefRows[u].preference_embedding
             IN  IF rec.redis_client
                 THEN req' = [req EXCEPT ![r] =
                                 [rec EXCEPT !.pc = "redis_set",
                                             !.preference_embedding = e,
                                             !.path = "postgres"]]
                 ELSE Finish(r, [rec EXCEPT !.preference_embedding = e],
                             e, "postgres")
        ELSE req' = [req EXCEPT ![r] = [rec EXCEPT !.pc = "select_reactions"]]

\* The call starts without a Redis client: its first await is the SELECT.
GetNoClient(r, user_id) ==
    /\ req[r].pc = "idle"
    /\ LowestFree(r)
    /\ AfterSelectPref(r, [req[r] EXCEPT !.user_id = user_id,
                                         !.redis_client = FALSE,
                                         !.afterInv = (lastOp[user_id] = "invalidated"),
                                         !.noSignal =
                                             (UserReactions(user_id, reactions) = {})])
    /\ UNCHANGED <<posts, reactions, prefRows, redis, lastOp, preInv, streamVars>>

\* Lines 94-97 after a Redis miss.
GetSelectPref(r) ==
    /\ req[r].pc = "select_pref"
    /\ AfterSelectPref(r, req[r])
    /\ UNCHANGED <<posts, reactions, prefRows, redis, lastOp, preInv, streamVars>>

\* Lines 196-217 and 120-127 once every SELECT of the computation is done.
AfterEmbeddings(r, rec) ==
    LET e == CombineEmbeddings(rec.liked_embeddings, rec.disliked_embeddings)
    IN  IF e = None
        THEN Finish(r, rec, None, "computed")
        ELSE req' = [req EXCEPT ![r] = [rec EXCEPT !.pc = "save_select",
                                                   !.preference_embedding = e,
                                                   !.path = "computed"]]

\* Lines 149-165: the reactions of the user.
GetSelectReactions(r) ==
    /\ req[r].pc = "select_reactions"
    /\ LET rs == UserReactions(req[r].user_id, reactions)
           liked == TargetIds(rs, reactions, LIKE)
           disliked == TargetIds(rs, reactions, DISLIKE)
           rec == [req[r] EXCEPT !.liked_post_ids = liked,
                                 !.disliked_post_ids = disliked]
       IN  IF rs = {}
           THEN Finish(r, req[r], None, "computed")
           ELSE req' = [req EXCEPT ![r] =
                           [rec EXCEPT !.pc = IF liked # {} THEN "select_liked"
                                              ELSE "select_disliked"]]
    /\ UNCHANGED <<posts, reactions, prefRows, redis, lastOp, preInv, streamVars>>

\* Lines 171-181: the liked posts that have an embedding.
GetSelectLiked(r) ==
    /\ req[r].pc = "select_liked"
    /\ LET rec == [req[r] EXCEPT !.liked_embeddings =
                                     PostEmbeddings(req[r].liked_post_ids, posts)]
       IN  IF rec.disliked_post_ids # {}
           THEN req' = [req EXCEPT ![r] = [rec EXCEPT !.pc = "select_disliked"]]
           ELSE AfterEmbeddings(r, rec)
    /\ UNCHANGED <<posts, reactions, prefRows, redis, lastOp, preInv, streamVars>>

\* Lines 184-194: the disliked posts that have an embedding.
GetSelectDisliked(r) ==
    /\ req[r].pc = "select_disliked"
    /\ AfterEmbeddings(r, [req[r] EXCEPT !.disliked_embeddings =
                               PostEmbeddings(req[r].disliked_post_ids, posts)])
    /\ UNCHANGED <<posts, reactions, prefRows, redis, lastOp, preInv, streamVars>>

\* _save_user_preference, lines 225-228: is there a row for the user?
GetSaveSelect(r) ==
    /\ req[r].pc = "save_select"
    /\ req' = [req EXCEPT ![r] =
                   [req[r] EXCEPT !.pc = "save_commit",
                                  !.user_pref = (req[r].user_id \in DOMAIN prefRows)]]
    /\ UNCHANGED <<posts, reactions, prefRows, redis, lastOp, preInv, streamVars>>

\* The row _save_user_preference writes.
PreferenceRow(embedding) == [preference_embedding |-> embedding]

\* _save_user_preference, lines 232-243: UPDATE the row that was found, or
\* INSERT a new one.  An UPDATE of a row deleted in between matches no row
\* (StaleDataError); an INSERT of a row inserted in between violates the
\* primary key (IntegrityError).
GetSaveCommit(r) ==
    /\ req[r].pc = "save_commit"
    /\ LET u == req[r].user_id
           ok == req[r].user_pref = (u \in DOMAIN prefRows)
           rec == [req[r] EXCEPT !.persisted = TRUE]
       IN  IF ok
           THEN /\ prefRows' = With(prefRows, u,
                                    PreferenceRow(req[r].preference_embedding))
                /\ IF req[r].redis_client
                   THEN req' = [req EXCEPT ![r] = [rec EXCEPT !.pc = "redis_set"]]
                   ELSE Finish(r, rec, rec.preference_embedding, "computed")
           ELSE /\ prefRows' = prefRows
                /\ Raise(r, req[r], IF req[r].user_pref THEN "StaleDataError"
                                    ELSE "IntegrityError")
    /\ UNCHANGED <<posts, reactions, redis, lastOp, preInv, streamVars>>

\* _save_preference_to_redis: SETEX preference:{user_id} TTL bytes, then the
\* call returns the embedding (lines 113-115 and 125-127).
GetRedisSet(r) ==
    /\ req[r].pc = "redis_set"
    /\ redis' = With(redis, req[r].user_id, ToBytes(req[r].preference_embedding))
    /\ Finish(r, req[r], req[r].preference_embedding, req[r].path)
    /\ UNCHANGED <<posts, reactions, prefRows, lastOp, preInv, streamVars>>

\* The caller has the result; the slot serves the next call.
Return(r) ==
    /\ req[r].pc = "done"
    /\ req' = [req EXCEPT ![r] = IdleReq]
    /\ UNCHANGED <<posts, reactions, prefRows, redis, lastOp, preInv, streamVars>>

\* The TTL of a key runs out (settings.PREFERENCE_CACHE_TTL after SETEX).
Expire(user_id) ==
    /\ user_id \in DOMAIN redis
    /\ redis' = Without(redis, user_id)
    /\ UNCHANGED <<posts, reactions, prefRows, req, lastOp, preInv, streamVars>>

\* ---------------------------------------------------------------- history
\* The authors of the reaction rows in which two states of the table differ.
ChangedAuthors(R, R2) ==
    {R[i].author_id : i \in {j \in DOMAIN R : j \notin DOMAIN R2 \/ R2[j] # R[j]}}
    \cup {R2[i].author_id : i \in {j \in DOMAIN R2 : j \notin DOMAIN R \/ R[j] # R2[j]}}

\* Has the call read the reactions of its user and not yet returned?
PastReactionRead(rec) ==
    rec.pc \in {"select_liked", "select_disliked", "save_select", "save_commit"}
    \/ (rec.pc = "redis_set" /\ rec.path = "computed")

\* The history flags of the calls after posts/reactions went from P, R to
\* P2, R2: a call whose reactions were read before a change of them is dirty,
\* and a call is noSignal while its user has had no reaction since it began.
ReqAfterChange(P, R, P2, R2) ==
    IF P2 = P /\ R2 = R THEN req
    ELSE [r \in Reqs |->
            [req[r] EXCEPT !.afterInv = FALSE,
                           !.raced = FALSE,
                           !.noSignal = @ /\ req[r].user_id \notin ChangedAuthors(R, R2),
                           !.dirty = @ \/ (/\ PastReactionRead(req[r])
                                           /\ req[r].user_id \in ChangedAuthors(R, R2))]]

LastOpAfterChange(P, R, P2, R2, how) ==
    IF P2 # P THEN [u \in Users |-> "post"]
    ELSE [u \in Users |-> IF u \in ChangedAuthors(R, R2) THEN how ELSE lastOp[u]]

\* The vectors a get of the user can be served from the two tiers.
HeldVectors(user_id) ==
    {FromBuffer(redis[u]) : u \in DOMAIN redis \cap {user_id}}
    \cup {prefRows[u].preference_embedding :
            u \in {w \in DOMAIN prefRows \cap {user_id} :
                     prefRows[w].preference_embedding # None}}

\* lastOp of a user once an invalidation for the user has completed:
\* "invalidated" when it follows a change of the user's reactions (or an
\* earlier such invalidation), "invalidated.unprompted" otherwise.
AfterInvalidation(op) ==
    IF op \in {"reaction.event", "reaction.api", "invalidated"}
    THEN "invalidated" ELSE "invalidated.unprompted"

\* ------------------------------------------------------------- operations
\* invalidate_user_preference(user_id, session), called with the arguments
\* its signature declares.
InvalidateUserPreference(user_id) ==
    /\ LET out == CallInvalidate(Db(posts, reactions, prefRows), <<user_id, "session">>)
       IN  prefRows' = out.db.prefs
    /\ lastOp' = [lastOp EXCEPT ![user_id] = AfterInvalidation(lastOp[user_id])]
    /\ preInv' = [preInv EXCEPT ![user_id] = HeldVectors(user_id)]
    /\ req' = [r \in Reqs |->
                 IF req[r].user_id = user_id /\ req[r].dirty
                 THEN [req[r] EXCEPT !.raced = TRUE] ELSE req[r]]
    /\ UNCHANGED <<posts, reactions, redis, streamVars>>

\* The whole effect of handling one message on the tables and the history.
Handle(event) ==
    LET out == HandleEvent(Db(posts, reactions, prefRows), event)
        P2 == out.db.posts
        R2 == out.db.reactions
        changed == LastOpAfterChange(posts, reactions, P2, R2, "reaction.event")
        user == event.payload.authorId
    IN  /\ posts' = P2
        /\ reactions' = R2
        /\ prefRows' = out.db.prefs
        /\ lastOp' = IF out.invalidated /\ user \in Users
                     THEN [changed EXCEPT ![user] = AfterInvalidation(changed[user])]
                     ELSE changed
        /\ preInv' = IF out.invalidated /\ user \in Users
                     THEN [preInv EXCEPT ![user] = HeldVectors(user)]
                     ELSE preInv
        /\ req' = ReqAfterChange(posts, reactions, P2, R2)
        /\ redis' = redis

\* _consume takes the next message of the topics and handles it.
Consume(event) ==
    /\ Handle(event)
    /\ UNCHANGED streamVars

\* A create_reaction that stores the reaction and leaves the cache alone.
CreateReactionKeepsCache(id, data) ==
    /\ LET row == ServiceReactionRow(data)
           R2 == IF CanInsertReaction(reactions, id, row)
                 THEN With(reactions, id, row) ELSE reactions
       IN  /\ reactions' = R2
           /\ lastOp' = LastOpAfterChange(posts, reactions, posts, R2, "reaction.api")
           /\ req' = ReqAfterChange(posts, reactions, posts, R2)
    /\ UNCHANGED <<posts, prefRows, redis, preInv, streamVars>>

\* RecommendationService.create_reaction: INSERT the reaction, commit, then
\* _invalidate_user_cache deletes the key recommendations:{author_id} (a key
\* of another family than preference:{user_id}).  A commit that raises
\* leaves the method before the invalidation.
CreateReaction(id, data) ==
    /\ LET row == ServiceReactionRow(data)
           ok == CanInsertReaction(reactions, id, row)
           R2 == IF ok THEN With(reactions, id, row) ELSE reactions
       IN  /\ reactions' = R2
           /\ redis' = IF ok THEN Without(redis, RecKey(data.author_id)) ELSE redis
           /\ lastOp' = LastOpAfterChange(posts, reactions, posts, R2, "reaction.api")
           /\ req' = ReqAfterChange(posts, reactions, posts, R2)
    /\ UNCHANGED <<posts, prefRows, preInv, streamVars>>

ReactionData ==
    [target_id : PostIds, author_id : Authors, type : ReactionTypes,
     target_type : {POST}]

\* Calls of get_user_preference_embedding one after the other, concurrent
\* with the consumer, create_reaction, invalidations and key expiry.
Next ==
    \/ \E u \in Users : GetFromRedis(1, u)
    \/ \E u \in Users : GetNoClient(1, u)
    \/ \E r \in Reqs : GetSelectPref(r)
    \/ \E r \in Reqs : GetSelectReactions(r)
    \/ \E r \in Reqs : GetSelectLiked(r)
    \/ \E r \in Reqs : GetSelectDisliked(r)
    \/ \E r \in Reqs : GetSaveSelect(r)
    \/ \E r \in Reqs : GetSaveCommit(r)
    \/ \E r \in Reqs : GetRedisSet(r)
    \/ \E r \in Reqs : Return(r)
    \/ \E u \in Users : Expire(u)
    \/ \E u \in Users : InvalidateUserPreference(u)
    \/ \E e \in Events : Consume(e)
    \/ \E i \in ReactionIds, d \in ReactionData : CreateReaction(i, d)

Spec == Init /\ [][Next]_vars

\* ------------------------------------------------ concurrent calls
\* The tables as events and create_reaction can have left them.
SeedPosts ==
    UNION {[ids -> [author_id : Authors, text : {"a"}, embedding : {Encode("a")}]
                   \cup [author_id : Authors, text : {NoText}, embedding : {None}]] :
           ids \in SUBSET PostIds}

SeedReactions ==
    UNION {[ids -> [target_id : PostIds, author_id : Authors, type : ReactionTypes,
                    target_type : {POST}]] : ids \in SUBSET ReactionIds}

InitConcurrent ==
    /\ posts \in SeedPosts
    /\ reactions \in SeedReactions
    /\ prefRows = Empty
    /\ redis = Empty
    /\ req = [r \in Reqs |-> IdleReq]
    /\ lastOp = [u \in Users |-> "none"]
    /\ preInv = [u \in Users |-> {}]
    /\ stream = <<>>
    /\ offset = 0
    /\ redeliveries = 0
    /\ delivered = <<>>

\* Calls of get_user_preference_embedding that overlap each other, with
\* invalidations and key expiry, while posts and reactions stay as they are.
NextConcurrent ==
    \/ \E r \in Reqs, u \in Users : GetFromRedis(r, u)
    \/ \E r \in Reqs, u \in Users : GetNoClient(r, u)
    \/ \E r \in Reqs : GetSelectPref(r)
    \/ \E r \in Reqs : GetSelectReactions(r)
    \/ \E r \in Reqs : GetSelectLiked(r)
    \/ \E r \in Reqs : GetSelectDisliked(r)
    \/ \E r \in Reqs : GetSaveSelect(r)
    \/ \E r \in Reqs : GetSaveCommit(r)
    \/ \E r \in Reqs : GetRedisSet(r)
    \/ \E r \in Reqs : Return(r)
    \/ \E u \in Users : Expire(u)
    \/ \E u \in Users : InvalidateUserPreference(u)

SpecConcurrent == InitConcurrent /\ [][NextConcurrent]_vars

\* ------------------------------------------------------------ redelivery
\* The messages of a stream that is redelivered.
ReplayEvents == PostEvents(Texts) \cup ReactionEvents

\* The rows present before the stream starts: one reaction stored through
\* create_reaction.
ReplayReactions ==
    [i \in {1} |-> [target_id |-> 1, author_id |-> "u1", type |-> LIKE,
                    target_type |-> POST]]

\* The entity an event is about.
EventKey(event) ==
    <<IF event \in ReactionEvents THEN "reaction" ELSE "post", event.payload.id>>

IsCreate(event) == event.eventType \in {"post.created", "reaction.created"}
IsDelete(event) == event.eventType \in {"post.deleted", "reaction.deleted"}

\* The producer emits, per entity, create before update before delete:
\* live is the set of entities that exist at the producer.
RECURSIVE OrderedFrom(_, _, _)
OrderedFrom(events, i, live) ==
    IF i > Len(events) THEN TRUE
    ELSE LET e == events[i]
             k == EventKey(e)
         IN  /\ IsCreate(e) <=> k \notin live
             /\ OrderedFrom(events, i + 1,
                            IF IsCreate(e) THEN live \cup {k}
                            ELSE IF IsDelete(e) THEN live \ {k} ELSE live)

PerKeyOrdered(events) ==
    OrderedFrom(events, 1, {<<"reaction", i>> : i \in DOMAIN ReplayReactions})

Streams ==
    {events \in UNION {[1..n -> ReplayEvents] : n \in 0..MaxStream} :
        PerKeyOrdered(events)}

InitReplay ==
    /\ posts = Empty
    /\ reactions = ReplayReactions
    /\ prefRows = Empty
    /\ redis = Empty
    /\ req = [r \in Reqs |-> IdleReq]
    /\ lastOp = [u \in Users |-> "none"]
    /\ preInv = [u \in Users |-> {}]
    /\ stream \in Streams
    /\ offset = 0
    /\ redeliveries = 0
    /\ delivered = [i \in DOMAIN stream |-> 0]

\* _consume handles the message at the consumer's offset.
ConsumeNext ==
    /\ offset < Len(stream)
    /\ Handle(stream[offset + 1])
    /\ offset' = offset + 1
    /\ delivered' = [delivered EXCEPT ![offset + 1] = @ + 1]
    /\ UNCHANGED <<stream, redeliveries>>

\* The consumer group resumes from an offset committed earlier
\* (enable_auto_commit): the messages after it are delivered again.
Redeliver(k) ==
    /\ redeliveries < MaxRedeliveries
    /\ k < offset
    /\ offset' = k
    /\ redeliveries' = redeliveries + 1
    /\ UNCHANGED <<posts, reactions, prefRows, redis, req, lastOp, preInv, stream,
                   delivered>>

NextReplay ==
    \/ ConsumeNext
    \/ \E k \in 0..MaxStream : Redeliver(k)

SpecReplay == InitReplay /\ [][NextReplay]_vars

\* The tables after each of events[i..] was handled exactly once from db.
RECURSIVE HandleOnce(_, _, _)
HandleOnce(db, events, i) ==
    IF i > Len(events) THEN db
    ELSE HandleOnce(HandleEvent(db, events[i]).db, events, i + 1)

\* ------------------------------------------------------------ properties
\* The preference computed from the tables as they are now.
Fresh(user_id) == ComputePreference(user_id, reactions, posts)

Returned(r) == req[r].pc = "done" /\ req[r].error = "none"

\* C1: a get with the Redis client that starts after
\* invalidate_user_preference(u) has completed (posts and reactions
\* unchanged since) never returns a vector that was held for u before the
\* invalidation, unless that vector is also the current preference.
C1_GetAfterInvalidationNotStale ==
    \A r \in Reqs :
        (/\ Returned(r)
         /\ req[r].redis_client
         /\ req[r].afterInv
         /\ req[r].result \in preInv[req[r].user_id])
        => req[r].result = Fresh(req[r].user_id)

\* C2: when invalidate_user_preference(u) completes, user_preferences holds
\* a row for u whose value is the preference recomputed from the reactions
\* and posts of that moment.
C2_InvalidationStoresRecomputation ==
    [][\A u \in Users :
          InvalidateUserPreference(u)
          => /\ u \in DOMAIN prefRows'
             /\ prefRows'[u].preference_embedding
                  = ComputePreference(u, reactions', posts')]_vars

\* C3: when invalidate_user_preference(u) completes, Redis holds no key
\* preference:{u} written before the invalidation started.
C3_InvalidationDeletesRedisKey ==
    [][\A u \in Users : InvalidateUserPreference(u) => u \notin DOMAIN redis']_vars

\* C4: a get that read the user's reactions before a reaction of the user
\* changed, and that was overtaken by a completed invalidation for that
\* change, never afterwards writes its vector to user_preferences or to
\* Redis unless the vector is the current preference.
C4_InvalidationWinsOverRacingPopulate ==
    [][\A r \in Reqs :
          (/\ req[r].raced
           /\ \/ GetSaveCommit(r) /\ prefRows' # prefRows
              \/ GetRedisSet(r))
          => req[r].preference_embedding = Fresh(req[r].user_id)]_vars

\* No call is in progress.
Quiescent == \A r \in Reqs : req[r].pc = "idle"

\* C5: once the last change of u's signal is a reaction event of u that has
\* been handled, every call has finished and the Redis key has expired, the
\* next get(u) returns the preference recomputed from the current tables:
\* a stored row for u is never left stale.
C5_NoPermanentStaleRead ==
    \A u \in Users :
        (/\ Quiescent
         /\ lastOp[u] = "reaction.event"
         /\ u \notin DOMAIN redis
         /\ u \in DOMAIN prefRows
         /\ prefRows[u].preference_embedding # None)
        => prefRows[u].preference_embedding = Fresh(u)

\* The call is inside _compute_preference_embedding: it has read the
\* reactions of its user and has posts left to read.
Computing(r) == req[r].pc \in {"select_liked", "select_disliked"}

\* C6: single-flight: two calls for the same user are never inside
\* _compute_preference_embedding at the same time.
C6_SingleFlight ==
    \A r, q \in Reqs :
        (r # q /\ Computing(r) /\ Computing(q)) => req[r].user_id # req[q].user_id

\* C7: every reaction event that changes the reactions table is followed,
\* within the handling of that event, by a completed invalidation of the
\* preference of the event's author.
C7_ReactionEventInvalidates ==
    [][\A e \in ReactionEvents :
          (Consume(e) /\ reactions' # reactions /\ e.payload.authorId \in Users)
          => lastOp'[e.payload.authorId] = "invalidated"]_vars

\* The row a create event stores for its id.
CreatedRow(e) ==
    IF e.eventType = "post.created" THEN PostRow(e.payload)
    ELSE [ConsumerReactionRow(e.payload) EXCEPT !.target_type = POST]

\* The tables once the messages of the stream up to the offset were each
\* handled exactly once.
HandledOnce ==
    HandleOnce(Db(Empty, ReplayReactions, Empty), SubSeq(stream, 1, offset), 1)

\* The last message handled is a create event of one of the given types,
\* it has been delivered at least twice and no later message has been
\* delivered: its id has one row, the row of the event, and the tables are
\* as after the first delivery.
DuplicateCreateIsNoOp(types) ==
    (/\ offset >= 1
     /\ stream[offset].eventType \in types
     /\ delivered[offset] >= 2
     /\ \A i \in DOMAIN stream : i > offset => delivered[i] = 0)
    => LET e == stream[offset]
           table == IF e.eventType = "post.created" THEN posts ELSE reactions
       IN  /\ e.payload.id \in DOMAIN table
           /\ table[e.payload.id] = CreatedRow(e)
           /\ Db(posts, reactions, prefRows) = HandledOnce

\* C8: delivering the same post.created or reaction.created event twice
\* leaves exactly one row for its id, with the content of the first
\* delivery, and the second delivery changes no table.
C8_DuplicateCreateIsNoOp == DuplicateCreateIsNoOp({"post.created", "reaction.created"})

\* C9: when a stream that is ordered per entity has been handled to its end,
\* with any already handled messages delivered again on the way, posts and
\* reactions are what handling each message exactly once leaves.
C9_RedeliveryLeavesSameContent ==
    offset = Len(stream)
    => LET once == HandleOnce(Db(Empty, ReplayReactions, Empty), stream, 1)
       IN  posts = once.posts /\ reactions = once.reactions

\* A stream that creates a post, updates it and changes a reaction was
\* handled to its end with every message delivered twice.
C9_Witness ==
    /\ offset = Len(stream)
    /\ Len(stream) >= 3
    /\ \A i \in DOMAIN stream : delivered[i] >= 2
    /\ 1 \in DOMAIN posts
    /\ posts[1].text = "b"
    /\ reactions # ReplayReactions

\* C10: a get that found neither a Redis key nor a row and computed the
\* preference has written a row for the user when it returns, whether the
\* result is a vector or None.
C10_ComputedResultIsPersisted ==
    \A r \in Reqs : (Returned(r) /\ req[r].path = "computed") => req[r].persisted

\* ------------------------------------------------ rows found in the store
\* The rows of user_preferences the schema admits without a vector:
\* preference_embedding is nullable, so a row can hold NULL.
NullRows ==
    UNION {[us -> {PreferenceRow(None)}] : us \in SUBSET Users}

\* The service starts on a database that already holds posts, reactions and
\* possibly a row of the user whose preference_embedding is NULL.
InitStored ==
    /\ posts \in SeedPosts
    /\ reactions \in SeedReactions
    /\ prefRows \in NullRows
    /\ redis = Empty
    /\ req = [r \in Reqs |-> IdleReq]
    /\ lastOp = [u \in Users |-> "none"]
    /\ preInv = [u \in Users |-> {}]
    /\ stream = <<>>
    /\ offset = 0
    /\ redeliveries = 0
    /\ delivered = <<>>

\* Calls of get_user_preference_embedding one after the other, with
\* invalidations and key expiry, on the stored content.
NextStored ==
    \/ \E u \in Users : GetFromRedis(1, u)
    \/ \E u \in Users : GetNoClient(1, u)
    \/ \E r \in Reqs : GetSelectPref(r)
    \/ \E r \in Reqs : GetSelectReactions(r)
    \/ \E r \in Reqs : GetSelectLiked(r)
    \/ \E r \in Reqs : GetSelectDisliked(r)
    \/ \E r \in Reqs : GetSaveSelect(r)
    \/ \E r \in Reqs : GetSaveCommit(r)
    \/ \E r \in Reqs : GetRedisSet(r)
    \/ \E r \in Reqs : Return(r)
    \/ \E u \in Users : Expire(u)
    \/ \E u \in Users : InvalidateUserPreference(u)

SpecStored == InitStored /\ [][NextStored]_vars

\* The SELECT of the user's row by call r for user u (lines 94-97).
SelectsPref(r, u) ==
    \/ GetNoClient(r, u)
    \/ GetSelectPref(r) /\ req[r].user_id = u

C12_NoReactionsNoPreference ==
    \A r \in Reqs :
        (Returned(r) /\ req[r].noSignal)
        => /\ req[r].result = None
           /\ req[r].user_id \notin DOMAIN redis

\* C13: a get that finds the key preference:{u} in Redis returns the vector
\* of the key in that step, without going on to the SELECT of the row or to
\* the computation, and leaves posts, reactions, user_preferences and Redis
\* unchanged.
C13_RedisHitTouchesNoStore ==
    [][\A r \in Reqs, u \in Users :
          (GetFromRedis(r, u) /\ u \in DOMAIN redis)
          => /\ req'[r].pc = "done"
             /\ req'[r].error = "none"
             /\ req'[r].result = FromBuffer(redis[u])
             /\ UNCHANGED <<posts, reactions, prefRows, redis>>]_vars

\* A call has returned the vector of the Redis key while the row of the
\* user is gone.
C13_Witness ==
    \E r \in Reqs :
        /\ Returned(r)
        /\ req[r].path = "redis"
        /\ req[r].result # None
        /\ req[r].user_id \notin DOMAIN prefRows

\* ------------------------------------------- the computation on its inputs
\* The posts tables the computation is applied to: every post absent, or
\* stored without embedding, or with the embedding of its text.  A text of
\* blanks is truthy, so it is encoded, and encode() gives it the zero vector.
ComputePosts ==
    UNION {[ids -> [author_id : {"u2"}, text : {"a"}, embedding : {Encode("a")}]
                   \cup [author_id : {"u2"}, text : {"b"}, embedding : {Encode("b")}]
                   \cup [author_id : {"u2"}, text : {" "}, embedding : {Encode(" ")}]
                   \cup [author_id : {"u2"}, text : {NoText}, embedding : {None}]] :
           ids \in SUBSET (1..NumComputePosts)}

\* The place of a reaction row in the order the tables list their rows in.
RowRank(row) == 2 * row.target_id + (IF row.type = LIKE THEN 0 ELSE 1)

\* The reactions tables: rows 1..n, on any post and of either type, by the
\* user; the last row may be another user's.  The computation does not read
\* the ids of the rows, so the rows of the user are listed in one order.
ComputeReactions ==
    UNION {{R \in [1..n -> [target_id : 1..NumComputePosts, author_id : Authors,
                            type : ReactionTypes, target_type : {POST}]] :
               /\ \A i \in 1..n : R[i].author_id \in Users \/ i = n
               /\ \A i, j \in 1..n :
                     (i < j /\ R[j].author_id \in Users)
                     => RowRank(R[i]) <= RowRank(R[j])} :
           n \in 0..NumComputeReactions}

InitCompute ==
    /\ posts \in ComputePosts
    /\ reactions \in ComputeReactions
    /\ prefRows = Empty
    /\ redis = Empty
    /\ req = [r \in Reqs |-> IdleReq]
    /\ lastOp = [u \in Users |-> "none"]
    /\ preInv = [u \in Users |-> {}]
    /\ stream = <<>>
    /\ offset = 0
    /\ redeliveries = 0
    /\ delivered = <<>>

\* One get_user_preference_embedding at a time, without a Redis client, on
\* tables that stay as they are.
NextCompute ==
    \/ \E u \in Users : GetNoClient(1, u)
    \/ \E r \in Reqs : GetSelectReactions(r)
    \/ \E r \in Reqs : GetSelectLiked(r)
    \/ \E r \in Reqs : GetSelectDisliked(r)
    \/ \E r \in Reqs : GetSaveSelect(r)
    \/ \E r \in Reqs : GetSaveCommit(r)
    \/ \E r \in Reqs : Return(r)

SpecCompute == InitCompute /\ [][NextCompute]_vars

\* The posts that exist with an embedding and that the user reacted to with
\* the given type.
ReactedPosts(u, type) ==
    {p \in DOMAIN posts :
        /\ posts[p].embedding # None
        /\ \E i \in DOMAIN reactions :
              /\ reactions[i].author_id = u
              /\ reactions[i].type = type
              /\ reactions[i].target_id = p}

\* The sum of coordinate k of the embeddings of the posts in S.
RECURSIVE CoordinateSum(_, _)
CoordinateSum(S, k) ==
    IF S = {} THEN 0
    ELSE LET p == CHOOSE q \in S : TRUE
         IN  posts[p].embedding[k] + CoordinateSum(S \ {p}, k)

\* Coordinate k of LIKE_WEIGHT * mean(liked) - DISLIKE_WEIGHT * mean(disliked),
\* multiplied by the two counts (a count of 0 taken as 1, its mean being
\* left out), so that it is an integer.
ReferenceCoordinate(L, D, k) ==
    LET nl == IF L = {} THEN 1 ELSE Cardinality(L)
        nd == IF D = {} THEN 1 ELSE Cardinality(D)
    IN  WEIGHT_LIKE_BOOST * nd * CoordinateSum(L, k)
          - WEIGHT_DISLIKE_PENALTY * nl * CoordinateSum(D, k)

\* v is what the reference gives for user u on the current tables: None
\* when the user has no reaction or no reacted post has an embedding; else
\* the vector of the direction of the weighted difference of the means
\* (v is parallel to it, points the same way and is reduced).  When the
\* difference is the zero vector the reference asks nothing here.
IsReference(v, u) ==
    LET L == ReactedPosts(u, LIKE)
        D == ReactedPosts(u, DISLIKE)
        w1 == ReferenceCoordinate(L, D, 1)
        w2 == ReferenceCoordinate(L, D, 2)
    IN  IF L = {} /\ D = {} THEN v = None
        ELSE IF w1 = 0 /\ w2 = 0 THEN TRUE
        ELSE /\ v # None
             /\ v[1] * w2 = v[2] * w1
             /\ v[1] * w1 + v[2] * w2 > 0
             /\ Gcd(Abs(v[1]), Abs(v[2])) = 1

C15_ZeroNormIsNone ==
    /\ \A r \in Reqs :
          (Returned(r) /\ req[r].path = "computed") => req[r].result # Zero
    /\ \A u \in DOMAIN prefRows : prefRows[u].preference_embedding # Zero

\* v stands for a vector of norm 1: it is not the zero vector and it is the
\* reduced vector of its direction.
IsUnit(v) == v # Zero /\ Gcd(Abs(v[1]), Abs(v[2])) = 1

\* C16: in every reachable state every row of user_preferences whose
\* preference_embedding is present holds a vector of norm 1.
C16_StoredVectorIsNormalized ==
    \A u \in DOMAIN prefRows :
        prefRows[u].preference_embedding # None
        => IsUnit(prefRows[u].preference_embedding)

\* An invalidation for the user has completed and neither the user's
\* reactions nor a post has changed since.
InvalidatedLast(u) == lastOp[u] \in {"invalidated", "invalidated.unprompted"}

MissingIdEvents(P, R) ==
    {e \in Events :
        \/ /\ e.eventType \in {"post.updated", "post.deleted"}
           /\ e.payload.id \notin DOMAIN P
        \/ /\ e.eventType \in {"reaction.updated", "reaction.deleted"}
           /\ e.payload.id \notin DOMAIN R}

\* C18: in every reachable state, handling an update or delete event whose
\* id is not stored raises no error, commits nothing, leaves posts,
\* reactions and user_preferences as they are and calls no invalidation.
C18_MissingIdIsNoOp ==
    LET db == Db(posts, reactions, prefRows)
    IN  \A e \in MissingIdEvents(posts, reactions) :
            HandleEvent(db, e) = Outcome(db, FALSE, FALSE, "none")

\* No post and no reaction is stored while a row and a Redis key of a user
\* are: every update and delete event is for a missing id.
C18_Witness ==
    /\ posts = Empty
    /\ reactions = Empty
    /\ \E u \in Users : u \in DOMAIN prefRows /\ u \in DOMAIN redis

\* Has the handler of the event reached its call of
\* invalidate_user_preference?
InvalidationStarted(out) == out.invalidated \/ out.error = "TypeError"

\* Does table R hold what the reaction event writes?
HoldsMutation(R, e) ==
    CASE e.eventType = "reaction.created" -> e.payload.id \in DOMAIN R
      [] e.eventType = "reaction.updated" ->
            e.payload.id \in DOMAIN R /\ R[e.payload.id].type = e.payload.type
      [] e.eventType = "reaction.deleted" -> e.payload.id \notin DOMAIN R
      [] OTHER -> TRUE

\* The handler's call of the invalidation finds the event's write committed.
InvalidationFollowsCommit ==
    \A e \in ReactionEvents :
        LET out == HandleEvent(Db(posts, reactions, prefRows), e)
        IN  InvalidationStarted(out)
            => out.changed /\ HoldsMutation(out.db.reactions, e)

\* Call r returns a preference it has computed, the last change of the
\* tables being a reaction event on a reaction of its user that the call's
\* SELECT of the reactions did not precede.
ComputesAfterEvent(r) ==
    /\ req[r].pc # "done"
    /\ req'[r].pc = "done"
    /\ req'[r].error = "none"
    /\ req'[r].path = "computed"
    /\ ~req'[r].dirty
    /\ lastOp[req'[r].user_id] = "reaction.event"

\* C19: a reaction handler calls invalidate_user_preference only once the
\* write of its event is committed, and a preference computed after the
\* event is the one of the tables with that write.
C19_InvalidationAfterCommit ==
    /\ []InvalidationFollowsCommit
    /\ [][\A r \in Reqs :
             ComputesAfterEvent(r)
             => req'[r].result = ComputePreference(req'[r].user_id, reactions, posts)]_vars

\* A call has returned a computed vector that is the preference of the
\* tables after a reaction event changed the type of the user's reaction.
C19_Witness ==
    \E r \in Reqs :
        /\ Returned(r)
        /\ req[r].path = "computed"
        /\ ~req[r].dirty
        /\ lastOp[req[r].user_id] = "reaction.event"
        /\ req[r].result \notin {None, Zero}
        /\ req[r].result = Fresh(req[r].user_id)

\* The embedding the post handlers store with a text.
EmbeddingOfText(text) == IF Truthy(text) THEN Encode(text) ELSE None

\* The message at the offset is the message handled last and is the post
\* write the stored row comes from: a post.updated of a stored post, or a
\* post.created delivered once.
LastPostWrite ==
    /\ offset >= 1
    /\ \A i \in DOMAIN stream : i > offset => delivered[i] = 0
    /\ \/ /\ stream[offset].eventType = "post.updated"
          /\ stream[offset].payload.id \in DOMAIN posts
       \/ /\ stream[offset].eventType = "post.created"
          /\ delivered[offset] = 1

\* C20: every stored post has an embedding exactly when its text is
\* non-empty, the embedding being the encoding of that text; after a
\* post.created or post.updated write the row holds the text of the payload
\* and the embedding of that text (none for an empty or missing text).
C20_EmbeddingIffText ==
    /\ \A p \in DOMAIN posts :
          /\ (posts[p].embedding # None) <=> Truthy(posts[p].text)
          /\ posts[p].embedding = EmbeddingOfText(posts[p].text)
    /\ LastPostWrite
       => LET payload == stream[offset].payload
          IN  /\ payload.id \in DOMAIN posts
              /\ posts[payload.id].text = payload.text
              /\ posts[payload.id].embedding = EmbeddingOfText(payload.text)

\* A post created with text "a" was updated to an empty or missing text and
\* then to text "b", whose encoding it now holds.
C20_Witness ==
    /\ offset = 3
    /\ stream[1].eventType = "post.created"
    /\ stream[1].payload.text = "a"
    /\ stream[2].eventType = "post.updated"
    /\ ~Truthy(stream[2].payload.text)
    /\ stream[3].eventType = "post.updated"
    /\ stream[3].payload.text = "b"
    /\ stream[3].payload.id \in DOMAIN posts
    /\ posts[stream[3].payload.id].embedding = Encode("b")

\* ------------------------------------------- failures of the encoder
\* Post events together with what embedding_model.encode does while the
\* event is handled: it returns, or it raises.
OracleEvents ==
    {[eventType |-> e.eventType, payload |-> e.payload, encode |-> x] :
        e \in PostEvents({NoText, "a"}), x \in {"ok", "raises"}}

\* _handle_post_created, lines 92-112, when encode raises at line 100: the
\* exception leaves the handler before Post(...) and session.add.
HandlePostCreatedEncodeRaises(db, payload) ==
    IF payload.id \in DOMAIN db.posts
    THEN Outcome(db, FALSE, FALSE, "none")
    ELSE IF Truthy(payload.text)
         THEN Outcome(db, FALSE, FALSE, "EncodeError")
         ELSE HandlePostCreated(db, payload)

\* _handle_post_updated, lines 121-139, when encode raises at line 134:
\* post.text is assigned on the loaded object but never committed, and the
\* session is closed by `async with`.
HandlePostUpdatedEncodeRaises(db, payload) ==
    IF payload.id \notin DOMAIN db.posts
    THEN Outcome(db, FALSE, FALSE, "none")
    ELSE IF Truthy(payload.text)
         THEN Outcome(db, FALSE, FALSE, "EncodeError")
         ELSE HandlePostUpdated(db, payload)

\* The routing of _consume for an event of OracleEvents.
HandleOracleEvent(db, event) ==
    LET plain == [eventType |-> event.eventType, payload |-> event.payload]
    IN  IF event.encode = "ok" THEN HandleEvent(db, plain)
        ELSE CASE event.eventType = "post.created" ->
                    HandlePostCreatedEncodeRaises(db, event.payload)
               [] event.eventType = "post.updated" ->
                    HandlePostUpdatedEncodeRaises(db, event.payload)
               [] OTHER -> HandleEvent(db, plain)

OracleStreams ==
    {events \in UNION {[1..n -> OracleEvents] : n \in 0..MaxStream} :
        OrderedFrom(events, 1, {})}

InitOracle ==
    /\ posts = Empty
    /\ reactions = Empty
    /\ prefRows = Empty
    /\ redis = Empty
    /\ req = [r \in Reqs |-> IdleReq]
    /\ lastOp = [u \in Users |-> "none"]
    /\ preInv = [u \in Users |-> {}]
    /\ stream \in OracleStreams
    /\ offset = 0
    /\ redeliveries = 0
    /\ delivered = [i \in DOMAIN stream |-> 0]

\* _consume handles the message at the offset; an exception of the handler
\* is logged at line 77 and the loop goes on.
ConsumeNextOracle ==
    /\ offset < Len(stream)
    /\ LET out == HandleOracleEvent(Db(posts, reactions, prefRows), stream[offset + 1])
       IN  /\ posts' = out.db.posts
           /\ lastOp' = LastOpAfterChange(posts, reactions, out.db.posts, reactions,
                                          "reaction.event")
           /\ req' = ReqAfterChange(posts, reactions, out.db.posts, reactions)
    /\ offset' = offset + 1
    /\ delivered' = [delivered EXCEPT ![offset + 1] = @ + 1]
    /\ UNCHANGED <<reactions, prefRows, redis, preInv, stream, redeliveries>>

NextOracle == ConsumeNextOracle

SpecOracle == InitOracle /\ [][NextOracle]_vars

\* C21: after a post.created was handled the post is stored with the text
\* of the payload, after a post.updated of a stored post the row holds the
\* text of the payload, and in both cases the embedding is absent when the
\* encoder raised.
C21_EncodeFailureKeepsContent ==
    offset >= 1
    => LET e == stream[offset]
           id == e.payload.id
       IN  /\ e.eventType = "post.created"
              => /\ id \in DOMAIN posts
                 /\ posts[id].text = e.payload.text
                 /\ (e.encode = "raises" => posts[id].embedding = None)
           /\ (e.eventType = "post.updated" /\ id \in DOMAIN posts)
              => /\ posts[id].text = e.payload.text
                 /\ (e.encode = "raises" => posts[id].embedding = None)

\* ------------------------------------------------ Redis out of reach
\* Lines 88-91 with a client whose GET raises: _get_preference_from_redis
\* catches the exception (lines 55-58) and returns None, whatever the server
\* holds under the key.
GetFromRedisUnreachable(r, user_id) ==
    /\ req[r].pc = "idle"
    /\ LowestFree(r)
    /\ req' = [req EXCEPT ![r] =
                   [req[r] EXCEPT !.pc = "select_pref", !.user_id = user_id,
                                  !.redis_client = TRUE,
                                  !.afterInv = (lastOp[user_id] = "invalidated"),
                                  !.noSignal = (UserReactions(user_id, reactions) = {})]]
    /\ UNCHANGED <<posts, reactions, prefRows, redis, lastOp, preInv, streamVars>>

\* A SETEX whose exception leaves get_user_preference_embedding.
GetRedisSetRaises(r) ==
    /\ req[r].pc = "redis_set"
    /\ Raise(r, req[r], "ConnectionError")
    /\ UNCHANGED <<posts, reactions, prefRows, redis, lastOp, preInv, streamVars>>

\* _save_preference_to_redis with a client whose SETEX raises: the exception
\* is caught and logged (lines 77-78), nothing is written, the call returns
\* the vector.
GetRedisSetUnreachable(r) ==
    /\ req[r].pc = "redis_set"
    /\ Finish(r, req[r], req[r].preference_embedding, req[r].path)
    /\ UNCHANGED <<posts, reactions, prefRows, redis, lastOp, preInv, streamVars>>

\* Rows of user_preferences as earlier calls can have left them, or NULL.
StoredRows ==
    UNION {[us -> {PreferenceRow(Encode("a")), PreferenceRow(Encode("b")),
                   PreferenceRow(None)}] : us \in SUBSET Users}

\* Keys the unreachable server may hold.
StoredKeys ==
    UNION {[us -> {ToBytes(Encode("a")), ToBytes(Encode("b"))}] : us \in SUBSET Users}

InitCacheDown ==
    /\ posts \in SeedPosts
    /\ reactions \in SeedReactions
    /\ prefRows \in StoredRows
    /\ redis \in StoredKeys
    /\ req = [r \in Reqs |-> IdleReq]
    /\ lastOp = [u \in Users |-> "none"]
    /\ preInv = [u \in Users |-> {}]
    /\ stream = <<>>
    /\ offset = 0
    /\ redeliveries = 0
    /\ delivered = <<>>

\* Calls of get_user_preference_embedding one after the other, without a
\* client or with a client none of whose operations succeeds.
NextCacheDown ==
    \/ \E u \in Users : GetFromRedisUnreachable(1, u)
    \/ \E u \in Users : GetNoClient(1, u)
    \/ \E r \in Reqs : GetSelectPref(r)
    \/ \E r \in Reqs : GetSelectReactions(r)
    \/ \E r \in Reqs : GetSelectLiked(r)
    \/ \E r \in Reqs : GetSelectDisliked(r)
    \/ \E r \in Reqs : GetSaveSelect(r)
    \/ \E r \in Reqs : GetSaveCommit(r)
    \/ \E r \in Reqs : GetRedisSetUnreachable(r)
    \/ \E r \in Reqs : Return(r)

SpecCacheDown == InitCacheDown /\ [][NextCacheDown]_vars

\* What the row of the user, or else the computation, gives.
StoreResult(user_id) ==
    IF user_id \in DOMAIN prefRows /\ prefRows[user_id].preference_embedding # None
    THEN prefRows[user_id].preference_embedding
    ELSE Fresh(user_id)

\* C22: a get without a Redis client, or with a client whose every GET and
\* SETEX fails, ends without an error and returns what the row of the user,
\* or else the computation from reactions and posts, gives.
C22_CacheDownFallsBackToStore ==
    \A r \in Reqs :
        req[r].pc = "done"
        => /\ req[r].error = "none"
           /\ req[r].result = StoreResult(req[r].user_id)

\* A call with the failing client has returned a vector other than the one
\* the server holds under the user's key.
C22_Witness ==
    \E r \in Reqs :
        /\ Returned(r)
        /\ req[r].redis_client
        /\ req[r].result # None
        /\ req[r].user_id \in DOMAIN redis
        /\ FromBuffer(redis[req[r].user_id]) # req[r].result

\* ------------------------------------- the database fails an invalidation
\* An invalidation whose failed DELETE or commit goes unreported.
CallInvalidateStoreFailsSilently(db, args) ==
    Outcome(db, FALSE, FALSE, "none")

\* invalidate_user_preference, lines 135-139, when session.execute or
\* session.commit raises: nothing is committed, the session is rolled back
\* when it is closed, and the exception leaves the method.
CallInvalidateStoreFails(db, args) ==
    IF CallBinds(InvalidateParams, args)
    THEN Outcome(db, FALSE, FALSE, "DBAPIError")
    ELSE Outcome(db, FALSE, FALSE, "TypeError")

\* invalidate_user_preference(user_id, session) while the database fails;
\* lastOp records the exception the caller gets.
InvalidateStoreFails(user_id) ==
    /\ LET out == CallInvalidateStoreFails(Db(posts, reactions, prefRows),
                                           <<user_id, "session">>)
       IN  /\ prefRows' = out.db.prefs
           /\ lastOp' = [lastOp EXCEPT ![user_id] =
                            IF out.error = "none" THEN AfterInvalidation(@)
                            ELSE "invalidation.failed"]
    /\ preInv' = [preInv EXCEPT ![user_id] = HeldVectors(user_id)]
    /\ UNCHANGED <<posts, reactions, redis, req, streamVars>>

\* Calls of get_user_preference_embedding one after the other, key expiry,
\* and invalidations some of which the database fails.
NextStoreDown ==
    \/ \E u \in Users : GetFromRedis(1, u)
    \/ \E u \in Users : GetNoClient(1, u)
    \/ \E r \in Reqs : GetSelectPref(r)
    \/ \E r \in Reqs : GetSelectReactions(r)
    \/ \E r \in Reqs : GetSelectLiked(r)
    \/ \E r \in Reqs : GetSelectDisliked(r)
    \/ \E r \in Reqs : GetSaveSelect(r)
    \/ \E r \in Reqs : GetSaveCommit(r)
    \/ \E r \in Reqs : GetRedisSet(r)
    \/ \E r \in Reqs : Return(r)
    \/ \E u \in Users : Expire(u)
    \/ \E u \in Users : InvalidateUserPreference(u)
    \/ \E u \in Users : InvalidateStoreFails(u)

SpecStoreDown == InitCacheDown /\ [][NextStoreDown]_vars

\* C23: an invalidation whose DELETE or commit fails leaves the row and the
\* Redis key of the user as they were, and its caller gets the exception.
C23_FailedInvalidationKeepsOldValue ==
    [][\A u \in Users :
          InvalidateStoreFails(u)
          => /\ prefRows' = prefRows
             /\ redis' = redis
             /\ lastOp'[u] = "invalidation.failed"]_vars

\* An invalidation has failed while the user has a row with a vector and a
\* Redis key, both still held.
C23_Witness ==
    \E u \in Users :
        /\ lastOp[u] = "invalidation.failed"
        /\ u \in DOMAIN prefRows
        /\ prefRows[u].preference_embedding # None
        /\ u \in DOMAIN redis
        /\ HeldVectors(u) = preInv[u]

\* ------------------------------------- the database fails while consuming
\* Post events together with what the database does while the event is
\* handled: it works, or its statements raise.
StoreEvents ==
    {[eventType |-> e.eventType, payload |-> e.payload, store |-> x] :
        e \in PostEvents({NoText, "a"}), x \in {"ok", "fails"}}

PlainEvent(event) == [eventType |-> event.eventType, payload |-> event.payload]

\* The routing of _consume for an event of StoreEvents: every handler starts
\* with a SELECT (lines 91, 122, 147), so a failing database raises in the
\* handler before anything is written.
HandleStoreEvent(db, event) ==
    IF event.store = "ok" THEN HandleEvent(db, PlainEvent(event))
    ELSE Outcome(db, FALSE, FALSE, "DBAPIError")

StoreStreams ==
    {events \in UNION {[1..n -> StoreEvents] : n \in 0..MaxStream} :
        OrderedFrom(events, 1, {})}

InitStoreFaults ==
    /\ posts = Empty
    /\ reactions = Empty
    /\ prefRows = Empty
    /\ redis = Empty
    /\ req = [r \in Reqs |-> IdleReq]
    /\ lastOp = [u \in Users |-> "none"]
    /\ preInv = [u \in Users |-> {}]
    /\ stream \in StoreStreams
    /\ offset = 0
    /\ redeliveries = 0
    /\ delivered = [i \in DOMAIN stream |-> 0]

\* A consume loop that a handler's exception ends: no message after one whose
\* handler raised is taken.
ConsumeNextStoreStopsOnError ==
    /\ offset < Len(stream)
    /\ \A i \in 1..offset : stream[i].store = "ok"
    /\ LET out == HandleStoreEvent(Db(posts, reactions, prefRows), stream[offset + 1])
       IN  /\ posts' = out.db.posts
           /\ lastOp' = LastOpAfterChange(posts, reactions, out.db.posts, reactions,
                                          "reaction.event")
           /\ req' = ReqAfterChange(posts, reactions, out.db.posts, reactions)
    /\ offset' = offset + 1
    /\ delivered' = [delivered EXCEPT ![offset + 1] = @ + 1]
    /\ UNCHANGED <<reactions, prefRows, redis, preInv, stream, redeliveries>>

\* _consume, lines 51-77: the exception of the handler is caught and logged
\* and `async for` takes the next message; with enable_auto_commit (line 39)
\* the position past the message is what the group commits.
ConsumeNextStore ==
    /\ offset < Len(stream)
    /\ LET out == HandleStoreEvent(Db(posts, reactions, prefRows), stream[offset + 1])
       IN  /\ posts' = out.db.posts
           /\ lastOp' = LastOpAfterChange(posts, reactions, out.db.posts, reactions,
                                          "reaction.event")
           /\ req' = ReqAfterChange(posts, reactions, out.db.posts, reactions)
    /\ offset' = offset + 1
    /\ delivered' = [delivered EXCEPT ![offset + 1] = @ + 1]
    /\ UNCHANGED <<reactions, prefRows, redis, preInv, stream, redeliveries>>

NextStoreFaults == ConsumeNextStore

SpecStoreFaults == InitStoreFaults /\ [][NextStoreFaults]_vars

\* The messages the consumer's position is past, as plain events.
Processed == [i \in 1..offset |-> PlainEvent(stream[i])]

\* C24: the messages the consumer's position is past have all had their
\* effect: the posts table is the one that handling each of them once
\* gives, so no message whose write failed counts as processed.
C24_NoProcessedEventIsLost ==
    posts = HandleOnce(Db(Empty, Empty, Empty), Processed, 1).posts

\* C25: user_preferences holds at most one row per user (the table is keyed
\* by user_id), and no call that persists its computed vector ends with the
\* error of a second INSERT for the same user: persisting is an upsert.
C25_SaveIsUpsert ==
    /\ DOMAIN prefRows \subseteq Users
    /\ \A r \in Reqs :
          req[r].pc = "done" => req[r].error # "IntegrityError"

\* ---------------------------------------------------------------- ranking
\* settings.MIN_SIMILARITY_THRESHOLD, in hundredths.
MIN_SIMILARITY_THRESHOLD == 80

\* settings.RECENCY_BOOST_*, in tenths.
RECENCY_BOOST_1H == 20
RECENCY_BOOST_6H == 18
RECENCY_BOOST_24H == 15
RECENCY_BOOST_3D == 13
RECENCY_BOOST_7D == 11
RECENCY_BOOST_DEFAULT == 10

\* timedelta(hours=1), (hours=6), (hours=24), (days=3), (days=7), in minutes.
Hours(n) == 60 * n
Days(n) == 1440 * n

\* datetime.utcnow() at ranking time, in minutes.
Now == 20000

\* A step function whose steps include their upper end.
RecencyBoostInclusive(now, created_at) ==
    LET age == now - created_at
    IN  IF age <= Hours(1) THEN RECENCY_BOOST_1H
        ELSE IF age <= Hours(6) THEN RECENCY_BOOST_6H
        ELSE IF age <= Hours(24) THEN RECENCY_BOOST_24H
        ELSE IF age <= Days(3) THEN RECENCY_BOOST_3D
        ELSE IF age <= Days(7) THEN RECENCY_BOOST_7D
        ELSE RECENCY_BOOST_DEFAULT

\* _calculate_recency_boost, lines 24-38, with the clock reading now.
RecencyBoost(now, created_at) ==
    LET age == now - created_at
    IN  IF age < Hours(1) THEN RECENCY_BOOST_1H
        ELSE IF age < Hours(6) THEN RECENCY_BOOST_6H
        ELSE IF age < Hours(24) THEN RECENCY_BOOST_24H
        ELSE IF age < Days(3) THEN RECENCY_BOOST_3D
        ELSE IF age < Days(7) THEN RECENCY_BOOST_7D
        ELSE RECENCY_BOOST_DEFAULT

Dot(v, w) == v[1] * w[1] + v[2] * w[2]

\* np.linalg.norm, for the vectors of the model (all of integer norm).
Norm(v) == CHOOSE n \in 0..10 : n * n = Dot(v, v)

\* compute_similarities, lines 87-97, in hundredths: the cosine; the 1e-10
\* added to the norms makes the similarity of a zero vector 0.
Similarity(query_embedding, embedding) ==
    IF Norm(query_embedding) = 0 \/ Norm(embedding) = 0 THEN 0
    ELSE (100 * Dot(query_embedding, embedding))
         \div (Norm(query_embedding) * Norm(embedding))

\* A comparison that drops a candidate whose similarity equals the threshold.
PassesThresholdStrict(similarity) == similarity > MIN_SIMILARITY_THRESHOLD

\* Line 299.
PassesThreshold(similarity) == similarity >= MIN_SIMILARITY_THRESHOLD

\* Line 304: final_score = float(similarity) * recency_boost.
FinalScore(similarity, recency_boost) == similarity * recency_boost

Range(seq) == {seq[i] : i \in DOMAIN seq}

\* The orders in which a query can deliver the rows of ids.
Deliveries(ids) ==
    {rows \in [1..Cardinality(ids) -> ids] : Range(rows) = ids}

\* Candidates that leave out the own posts but not the posts reacted to.
RecommendationCandidatesWithReacted(user_id, exclude_author_posts, P, R) ==
    {i \in DOMAIN P :
        /\ P[i].embedding # None
        /\ exclude_author_posts => P[i].author_id # user_id}

\* Lines 263-280: posts with an embedding, not of the user when
\* exclude_author_posts, and not among the targets of the user's reactions.
RecommendationCandidates(user_id, exclude_author_posts, P, R) ==
    {i \in DOMAIN P :
        /\ P[i].embedding # None
        /\ exclude_author_posts => P[i].author_id # user_id
        /\ i \notin {R[j].target_id : j \in UserReactions(user_id, R)}}

\* Lines 283-286: ORDER BY created_at DESC; rows of equal created_at come in
\* any order.
ByRecency(ids, P) ==
    {rows \in Deliveries(ids) :
        \A i, j \in DOMAIN rows :
            i < j => P[rows[i]].created_at >= P[rows[j]].created_at}

\* Lines 334-337: posts with an embedding, not of the user when
\* exclude_author_posts.
PopularCandidates(user_id, exclude_author_posts, P) ==
    {i \in DOMAIN P :
        /\ P[i].embedding # None
        /\ exclude_author_posts => P[i].author_id # user_id}

\* ORDER BY likes_count DESC, created_at DESC: is row a allowed before b?
PopularBefore(a, b) ==
    \/ a.likes_count > b.likes_count
    \/ a.likes_count = b.likes_count /\ a.created_at >= b.created_at

\* A fallback query ordered by created_at alone.
ByPopularityRecencyOnly(ids, P) ==
    {rows \in Deliveries(ids) :
        \A i, j \in DOMAIN rows :
            i < j => P[rows[i]].created_at >= P[rows[j]].created_at}

\* Lines 340-346: the order of the fallback query.
ByPopularity(ids, P) ==
    {rows \in Deliveries(ids) :
        \A i, j \in DOMAIN rows : i < j => PopularBefore(P[rows[i]], P[rows[j]])}

\* seq[:limit]
Take(seq, limit) ==
    SubSeq(seq, 1, IF limit < Len(seq) THEN limit ELSE Len(seq))

\* Lines 298-299: the rows whose similarity passes the threshold, in the
\* order of the query.
RECURSIVE KeepSimilar(_, _, _)
KeepSimilar(rows, P, user_embedding) ==
    IF rows = <<>> THEN <<>>
    ELSE LET rest == KeepSimilar(Tail(rows), P, user_embedding)
         IN  IF PassesThreshold(Similarity(user_embedding, P[Head(rows)].embedding))
             THEN <<Head(rows)>> \o rest ELSE rest

\* list.sort(key=score, reverse=True) is stable: an element goes behind the
\* elements of greater or equal score that precede it.
RECURSIVE SortByScore(_, _)
SortByScore(seq, score) ==
    IF seq = <<>> THEN <<>>
    ELSE LET front == SortByScore(SubSeq(seq, 1, Len(seq) - 1), score)
             x == seq[Len(seq)]
             k == Cardinality({i \in DOMAIN front : score[front[i]] >= score[x]})
         IN  SubSeq(front, 1, k) \o <<x>> \o SubSeq(front, k + 1, Len(front))

\* similarity_score of the rows kept (line 316).
ScoresOf(ids, P, user_embedding, now) ==
    [i \in ids |-> FinalScore(Similarity(user_embedding, P[i].embedding),
                              RecencyBoost(now, P[i].created_at))]

\* similarity_score=None of the fallback (line 361).
NoScore == "None"

\* get_recommendations, lines 257-324, once get_user_preference_embedding
\* has returned; rows is the order in which the query delivered the posts.
GetRecommendations(r, limit, exclude_author_posts, rows) ==
    /\ req[r].pc = "done"
    /\ req[r].error = "none"
    /\ LET u == req[r].user_id
           rec == [req[r] EXCEPT !.pc = "ranked", !.limit = limit,
                                 !.exclude_author_posts = exclude_author_posts]
       IN  IF req[r].result = None
           THEN /\ rows \in ByPopularity(PopularCandidates(u, exclude_author_posts, posts),
                                         posts)
                /\ req' = [req EXCEPT ![r] =
                              [rec EXCEPT !.recs = Take(rows, limit),
                                          !.scores = [i \in Range(Take(rows, limit))
                                                         |-> NoScore]]]
           ELSE /\ rows \in ByRecency(RecommendationCandidates(u, exclude_author_posts,
                                                               posts, reactions), posts)
                /\ LET kept == KeepSimilar(rows, posts, req[r].result)
                       score == ScoresOf(Range(kept), posts, req[r].result, Now)
                       sorted == Take(SortByScore(kept, score), limit)
                   IN  req' = [req EXCEPT ![r] =
                                  [rec EXCEPT !.recs = sorted,
                                              !.scores = [i \in Range(sorted) |-> score[i]]]]
    /\ UNCHANGED <<posts, reactions, prefRows, redis, lastOp, preInv, streamVars>>

RankPostIds == 1..NumRankPosts
Limits == 1..MaxLimit

\* created_at of the posts: ages of 0, 30 and 61 minutes.
RankTimes == {Now, Now - 30, Now - 61}

RankEmbeddings == {None, <<1, 0>>, <<0, 1>>, <<3, 4>>}

\* The posts table with the columns ranking reads.
RankPosts(times) ==
    UNION {[ids -> [author_id : Authors, text : {NoText},
                    embedding : RankEmbeddings, created_at : times,
                    likes_count : {0, 1}]] : ids \in SUBSET RankPostIds}

RankReactions ==
    UNION {[ids -> [target_id : RankPostIds, author_id : Authors,
                    type : ReactionTypes, target_type : {POST}]] :
           ids \in SUBSET ReactionIds}

\* The call of get_recommendations at the point where line 255 has returned
\* the preference of the user.
AfterLine255(user_embedding) ==
    [IdleReq EXCEPT !.pc = "done", !.user_id = "u1", !.result = user_embedding,
                    !.path = "postgres"]

InitRank ==
    /\ posts \in RankPosts(RankTimes)
    /\ reactions \in RankReactions
    /\ prefRows = Empty
    /\ redis = Empty
    /\ \E e \in {None, <<1, 0>>, <<3, 4>>} :
          req = [r \in Reqs |-> IF r = 1 THEN AfterLine255(e) ELSE IdleReq]
    /\ lastOp = [u \in Users |-> "none"]
    /\ preInv = [u \in Users |-> {}]
    /\ stream = <<>>
    /\ offset = 0
    /\ redeliveries = 0
    /\ delivered = <<>>

NextRank ==
    \E r \in Reqs, limit \in Limits, exclude_author_posts \in BOOLEAN,
       rows \in UNION {Deliveries(ids) : ids \in SUBSET RankPostIds} :
        GetRecommendations(r, limit, exclude_author_posts, rows)

SpecRank == InitRank /\ [][NextRank]_vars

Ranked(r) == req[r].pc = "ranked"

\* Is the sequence free of repetitions?
Injective(seq) == \A i, j \in DOMAIN seq : seq[i] = seq[j] => i = j

\* Does post a rank strictly above post b by likes_count, then created_at?
MorePopular(a, b) ==
    \/ a.likes_count > b.likes_count
    \/ a.likes_count = b.likes_count /\ a.created_at > b.created_at

\* C26: when the preference is absent, the result is the first `limit` of
\* the candidates by likes_count descending, then created_at descending
\* (no candidate left out ranks above a returned one, no returned one
\* stands before one that ranks above it), and no item carries a score.
C26_FallbackByPopularityThenRecency ==
    \A r \in Reqs :
        (Ranked(r) /\ req[r].result = None)
        => LET recs == req[r].recs
               cand == PopularCandidates(req[r].user_id, req[r].exclude_author_posts,
                                         posts)
           IN  /\ Injective(recs)
               /\ Range(recs) \subseteq cand
               /\ Len(recs) = IF Cardinality(cand) < req[r].limit
                              THEN Cardinality(cand) ELSE req[r].limit
               /\ \A i, j \in DOMAIN recs :
                     i < j => ~MorePopular(posts[recs[j]], posts[recs[i]])
               /\ \A c \in cand \ Range(recs), i \in DOMAIN recs :
                     ~MorePopular(posts[c], posts[recs[i]])
               /\ \A i \in DOMAIN recs : req[r].scores[recs[i]] = NoScore

\* The fallback has returned, with limit 1, the older of two candidates
\* because it has more likes.
C26_Witness ==
    \E r \in Reqs :
        /\ Ranked(r)
        /\ req[r].result = None
        /\ req[r].limit = 1
        /\ Len(req[r].recs) = 1
        /\ \E c \in PopularCandidates(req[r].user_id, req[r].exclude_author_posts, posts) :
              /\ c # req[r].recs[1]
              /\ posts[c].created_at > posts[req[r].recs[1]].created_at
              /\ posts[c].likes_count < posts[req[r].recs[1]].likes_count

\* C27: when the preference is present, every returned post has an
\* embedding, is not the target of a reaction of the user (of either type),
\* is not a post of the user when exclude_author_posts is set, and at most
\* `limit` posts are returned.
C27_ReturnedItemsAreFiltered ==
    \A r \in Reqs :
        (Ranked(r) /\ req[r].result # None)
        => /\ Len(req[r].recs) <= req[r].limit
           /\ \A i \in DOMAIN req[r].recs :
                 LET p == req[r].recs[i]
                 IN  /\ p \in DOMAIN posts
                     /\ posts[p].embedding # None
                     /\ ~\E j \in DOMAIN reactions :
                           /\ reactions[j].author_id = req[r].user_id
                           /\ reactions[j].target_id = p
                     /\ req[r].exclude_author_posts
                        => posts[p].author_id # req[r].user_id

\* A ranking by preference has returned a post while a post the user has
\* reacted to, with a similarity above the threshold, was left out.
C27_Witness ==
    \E r \in Reqs :
        /\ Ranked(r)
        /\ req[r].result # None
        /\ Len(req[r].recs) = 1
        /\ req[r].limit = 2
        /\ \E p \in DOMAIN posts, j \in DOMAIN reactions :
              /\ posts[p].embedding # None
              /\ posts[p].author_id # req[r].user_id
              /\ PassesThreshold(Similarity(req[r].result, posts[p].embedding))
              /\ reactions[j].author_id = req[r].user_id
              /\ reactions[j].target_id = p
              /\ p \notin Range(req[r].recs)

\* The candidates of call r whose similarity to the call's preference is at
\* least the threshold.
AtOrAboveThreshold(r) ==
    {c \in RecommendationCandidates(req[r].user_id, req[r].exclude_author_posts,
                                    posts, reactions) :
        Similarity(req[r].result, posts[c].embedding) >= MIN_SIMILARITY_THRESHOLD}

\* C28: a ranking by preference returns only candidates whose similarity is
\* at least MIN_SIMILARITY_THRESHOLD, and all of them unless `limit` cuts
\* the list: similarity equal to the threshold is kept, and the comparison
\* is on the similarity, not on the similarity times the recency boost.
C28_ThresholdIsInclusiveOnRawSimilarity ==
    \A r \in Reqs :
        (Ranked(r) /\ req[r].result # None)
        => /\ Range(req[r].recs) \subseteq AtOrAboveThreshold(r)
           /\ Len(req[r].recs) = IF Cardinality(AtOrAboveThreshold(r)) < req[r].limit
                                 THEN Cardinality(AtOrAboveThreshold(r))
                                 ELSE req[r].limit

\* A candidate whose similarity equals the threshold has been returned and
\* one below the threshold, whose boosted score is above it, has not.
C28_Witness ==
    \E r \in Reqs :
        /\ Ranked(r)
        /\ req[r].result # None
        /\ req[r].limit = 2
        /\ \E p \in Range(req[r].recs) :
              Similarity(req[r].result, posts[p].embedding) = MIN_SIMILARITY_THRESHOLD
        /\ \E c \in RecommendationCandidates(req[r].user_id, req[r].exclude_author_posts,
                                             posts, reactions) :
              LET sim == Similarity(req[r].result, posts[c].embedding)
              IN  /\ sim < MIN_SIMILARITY_THRESHOLD
                  /\ FinalScore(sim, RecencyBoost(Now, posts[c].created_at))
                       >= 10 * MIN_SIMILARITY_THRESHOLD
                  /\ c \notin Range(req[r].recs)

\* ---------------------------------------------------------- recency boost
\* Ages, in minutes, on both sides of every step of the boost, one beyond
\* the last step and one of a post dated after the clock.
BoundaryAges ==
    {0 - 5, 0, 59, 60, 61, 359, 360, 361, 1439, 1440, 4319, 4320,
     10079, 10080, 15000}

BoostTimes == {Now - a : a \in BoundaryAges}

\* Posts of every boundary age, each similar enough to one of the
\* preferences to be ranked.
InitBoost ==
    /\ posts \in [RankPostIds -> [author_id : Authors, text : {NoText},
                                  embedding : {<<1, 0>>, <<3, 4>>},
                                  created_at : BoostTimes, likes_count : {0}]]
    /\ reactions = Empty
    /\ prefRows = Empty
    /\ redis = Empty
    /\ \E e \in {<<1, 0>>, <<3, 4>>} :
          req = [r \in Reqs |-> IF r = 1 THEN AfterLine255(e) ELSE IdleReq]
    /\ lastOp = [u \in Users |-> "none"]
    /\ preInv = [u \in Users |-> {}]
    /\ stream = <<>>
    /\ offset = 0
    /\ redeliveries = 0
    /\ delivered = <<>>

SpecBoost == InitBoost /\ [][NextRank]_vars

\* C29: the score of every ranked post is its similarity times the boost of
\* its age at ranking time: 2.0 below 1 hour, 1.8 below 6 hours, 1.5 below
\* 24 hours, 1.3 below 3 days, 1.1 below 7 days and 1.0 from 7 days on (59
\* minutes give 2.0, 61 minutes give 1.8).
C29_ScoreIsSimilarityTimesBoost ==
    \A r \in Reqs :
        (Ranked(r) /\ req[r].result # None)
        => \A p \in Range(req[r].recs) :
              LET age == Now - posts[p].created_at
                  boost == IF age < 60 THEN 20
                           ELSE IF age < 360 THEN 18
                           ELSE IF age < 1440 THEN 15
                           ELSE IF age < 4320 THEN 13
                           ELSE IF age < 10080 THEN 11
                           ELSE 10
              IN  req[r].scores[p]
                    = Similarity(req[r].result, posts[p].embedding) * boost

\* A ranking has returned a post of 59 minutes with twice its similarity and
\* a post of 61 minutes with 1.8 times its similarity.
C29_Witness ==
    \E r \in Reqs :
        /\ Ranked(r)
        /\ req[r].result # None
        /\ \E p, q \in Range(req[r].recs) :
              /\ Now - posts[p].created_at = 59
              /\ Now - posts[q].created_at = 61
              /\ req[r].scores[p]
                   = 20 * Similarity(req[r].result, posts[p].embedding)
              /\ req[r].scores[q]
                   = 18 * Similarity(req[r].result, posts[q].embedding)

\* C30: the posts of a ranking by preference come by final score descending,
\* posts of equal score by created_at descending, and posts of equal score
\* and created_at by id ascending, whatever the order in which the query
\* delivered them.
C30_RankOrderIsTotal ==
    \A r \in Reqs :
        (Ranked(r) /\ req[r].result # None)
        => \A i, j \in DOMAIN req[r].recs :
              i < j =>
                LET a == req[r].recs[i]
                    b == req[r].recs[j]
                IN  \/ req[r].scores[a] > req[r].scores[b]
                    \/ /\ req[r].scores[a] = req[r].scores[b]
                       /\ posts[a].created_at > posts[b].created_at
                    \/ /\ req[r].scores[a] = req[r].scores[b]
                       /\ posts[a].created_at = posts[b].created_at
                       /\ a < b

\* ------------------------------------------- embeddings of other dimensions
\* A vector of three coordinates next to the two-coordinate vectors of the
\* preferences.
OtherDimension == <<1, 0, 0>>

\* Lines 293-294: np.array over the embeddings of all the candidates and one
\* np.dot with the preference; rows of unequal length, or of a length other
\* than the preference's, raise ValueError there.
SameDimension(ids, P, user_embedding) ==
    \A i \in ids : Len(P[i].embedding) = Len(user_embedding)

\* get_recommendations over candidates of any dimension: lines 292-294 sit
\* in no try block, so their exception leaves the call before a post is
\* scored.
GetRecommendationsAnyDimension(r, limit, exclude_author_posts, rows) ==
    IF /\ req[r].result # None
       /\ ~SameDimension(RecommendationCandidates(req[r].user_id, exclude_author_posts,
                                                  posts, reactions),
                         posts, req[r].result)
    THEN /\ req[r].pc = "done"
         /\ req[r].error = "none"
         /\ rows \in ByRecency(RecommendationCandidates(req[r].user_id,
                                                        exclude_author_posts,
                                                        posts, reactions), posts)
         /\ req' = [req EXCEPT ![r] =
                       [@ EXCEPT !.pc = "ranked", !.limit = limit,
                                 !.exclude_author_posts = exclude_author_posts,
                                 !.error = "ValueError"]]
         /\ UNCHANGED <<posts, reactions, prefRows, redis, lastOp, preInv, streamVars>>
    ELSE GetRecommendations(r, limit, exclude_author_posts, rows)

InitAnyDimension ==
    /\ posts \in [RankPostIds -> [author_id : Authors, text : {NoText},
                                  embedding : {<<1, 0>>, <<3, 4>>, OtherDimension},
                                  created_at : RankTimes, likes_count : {0}]]
    /\ reactions = Empty
    /\ prefRows = Empty
    /\ redis = Empty
    /\ \E e \in {<<1, 0>>, <<3, 4>>} :
          req = [r \in Reqs |-> IF r = 1 THEN AfterLine255(e) ELSE IdleReq]
    /\ lastOp = [u \in Users |-> "none"]
    /\ preInv = [u \in Users |-> {}]
    /\ stream = <<>>
    /\ offset = 0
    /\ redeliveries = 0
    /\ delivered = <<>>

NextAnyDimension ==
    \E r \in Reqs, limit \in Limits, exclude_author_posts \in BOOLEAN,
       rows \in UNION {Deliveries(ids) : ids \in SUBSET RankPostIds} :
        GetRecommendationsAnyDimension(r, limit, exclude_author_posts, rows)

SpecAnyDimension == InitAnyDimension /\ [][NextAnyDimension]_vars

PostResponse(id, P) ==
    [id |-> id, authorId |-> P[id].author_id, text |-> P[id].text,
     createdAt |-> P[id].created_at, likesCount |-> P[id].likes_count]

\* RecommendationResponse(user_id, recommendations, total_count), lines 90-94.
RecommendationResponse(user_id, ids, P) ==
    [user_id |-> user_id,
     recommendations |-> [i \in DOMAIN ids |-> PostResponse(ids[i], P)],
     total_count |-> Len(ids)]

\* json.dumps(response.model_dump(mode='json')) and
\* RecommendationResponse(**json.loads(cached_data)).
ToJson(response) == [format |-> "json", data |-> response]
FromJson(cached_data) == cached_data.data

\* The ids of the posts of a response, in its order.
ResponseIds(response) ==
    [i \in DOMAIN response.recommendations |-> response.recommendations[i].id]

\* get_recommendations, lines 62-65: the key of the user is in the cache and
\* its value is returned, whatever limit and exclude_author_posts ask for.
ServiceGetCached(r, user_id, limit, exclude_author_posts) ==
    /\ req[r].pc = "idle"
    /\ LowestFree(r)
    /\ RecKey(user_id) \in DOMAIN redis
    /\ req' = [req EXCEPT ![r] =
                  [IdleReq EXCEPT !.pc = "served", !.user_id = user_id,
                                  !.path = "cache", !.limit = limit,
                                  !.exclude_author_posts = exclude_author_posts,
                                  !.recs = ResponseIds(FromJson(redis[RecKey(user_id)]))]]
    /\ UNCHANGED <<posts, reactions, prefRows, redis, lastOp, preInv, streamVars>>

\* get_recommendations, lines 62-73, on a cache miss: the recommender is
\* called without a Redis client and starts by fetching the preference.
ServiceGetMiss(r, user_id) ==
    /\ RecKey(user_id) \notin DOMAIN redis
    /\ GetNoClient(r, user_id)

\* get_recommendations, lines 76-99: the response is built, written to the
\* cache under the key of the user, and returned.
ServiceCacheRecommendations(r) ==
    /\ req[r].pc = "ranked"
    /\ redis' = With(redis, RecKey(req[r].user_id),
                     ToJson(RecommendationResponse(req[r].user_id, req[r].recs, posts)))
    /\ req' = [req EXCEPT ![r] = [@ EXCEPT !.pc = "served"]]
    /\ UNCHANGED <<posts, reactions, prefRows, lastOp, preInv, streamVars>>

\* The caller has the response; the slot serves the next call.
ServiceReturn(r) ==
    /\ req[r].pc = "served"
    /\ req' = [req EXCEPT ![r] = IdleReq]
    /\ UNCHANGED <<posts, reactions, prefRows, redis, lastOp, preInv, streamVars>>

\* refresh_user_recommendations, lines 119-128: line 121 calls
\* _invalidate_user_cache without await, which builds a coroutine that never
\* runs; line 125 awaits get_user_preference_embedding(user_id, session).
Refresh(r, user_id) ==
    /\ req[r].pc = "idle"
    /\ GetNoClient(r, user_id)

\* RecommendationService.create_post, lines 112-129: encode the text when
\* there is one, INSERT the post, commit.  likes_count takes its default.
CreatePost(post_data) ==
    /\ post_data.id \notin DOMAIN posts
    /\ posts' = With(posts, post_data.id,
                     [author_id |-> post_data.author_id,
                      text |-> post_data.text,
                      embedding |-> IF Truthy(post_data.text)
                                    THEN Encode(post_data.text) ELSE None,
                      created_at |-> post_data.created_at,
                      likes_count |-> 0])
    /\ lastOp' = [u \in Users |-> "post"]
    /\ req' = ReqAfterChange(posts, reactions, posts', reactions)
    /\ UNCHANGED <<reactions, prefRows, redis, preInv, streamVars>>

PostCreate ==
    [id : RankPostIds, author_id : Authors, text : {"a", "b"},
     created_at : {Now - 30, Now - 61}]

NextService ==
    \/ \E u \in Users, limit \in Limits, exclude_author_posts \in BOOLEAN :
          ServiceGetCached(1, u, limit, exclude_author_posts)
    \/ \E u \in Users : ServiceGetMiss(1, u)
    \/ \E u \in Users : Refresh(1, u)
    \/ \E r \in Reqs : GetSelectReactions(r)
    \/ \E r \in Reqs : GetSelectLiked(r)
    \/ \E r \in Reqs : GetSelectDisliked(r)
    \/ \E r \in Reqs : GetSaveSelect(r)
    \/ \E r \in Reqs : GetSaveCommit(r)
    \/ \E r \in Reqs : Return(r)
    \/ \E r \in Reqs, limit \in Limits, exclude_author_posts \in BOOLEAN,
          rows \in UNION {Deliveries(ids) : ids \in SUBSET RankPostIds} :
          GetRecommendations(r, limit, exclude_author_posts, rows)
    \/ \E r \in Reqs : ServiceCacheRecommendations(r)
    \/ \E r \in Reqs : ServiceReturn(r)
    \/ \E d \in PostCreate : CreatePost(d)
    \/ \E i \in ReactionIds, d \in ReactionData : CreateReaction(i, d)

SpecService == Init /\ [][NextService]_vars

\* The preference get_user_preference_embedding finds for the user on the
\* tables as they are: the stored one, else the computed one.
CurrentPreference(user_id) ==
    IF /\ user_id \in DOMAIN prefRows
       /\ prefRows[user_id].preference_embedding # None
    THEN prefRows[user_id].preference_embedding
    ELSE ComputePreference(user_id, reactions, posts)

\* The lists a ranking of the committed posts can return for a preference.
Rankings(user_id, user_embedding, limit, exclude_author_posts) ==
    IF user_embedding = None
    THEN {Take(rows, limit) :
            rows \in ByPopularity(PopularCandidates(user_id, exclude_author_posts, posts),
                                  posts)}
    ELSE {Take(SortByScore(KeepSimilar(rows, posts, user_embedding),
                           ScoresOf(RankPostIds \cap DOMAIN posts, posts,
                                    user_embedding, Now)), limit) :
            rows \in ByRecency(RecommendationCandidates(user_id, exclude_author_posts,
                                                        posts, reactions), posts)}

UpdateEvents ==
    {e \in ReplayEvents : e.eventType \in {"post.updated", "reaction.updated"}}

\* The tables with all the columns of models.py that an update could touch:
\* as post.created and reaction.created (or create_post, create_reaction)
\* have stored the rows.
StoredPosts ==
    UNION {[ids -> [author_id : Authors, text : {"a"}, embedding : {Encode("a")},
                    created_at : RankTimes, likes_count : {0}]
                   \cup [author_id : Authors, text : {NoText}, embedding : {None},
                         created_at : RankTimes, likes_count : {0}]] :
           ids \in SUBSET PostIds}

StoredReactions ==
    UNION {[ids -> [target_id : PostIds, author_id : Authors, type : ReactionTypes,
                    target_type : {POST}, created_at : RankTimes]] :
           ids \in SUBSET ReactionIds}

InitUpdates ==
    /\ posts \in StoredPosts
    /\ reactions \in StoredReactions
    /\ prefRows = Empty
    /\ redis = Empty
    /\ req = [r \in Reqs |-> IdleReq]
    /\ lastOp = [u \in Users |-> "none"]
    /\ preInv = [u \in Users |-> {}]
    /\ stream = <<>>
    /\ offset = 0
    /\ redeliveries = 0
    /\ delivered = <<>>

\* A consumer that stores the row of an update event anew, as a create
\* would, with the creation time of the handling.
ConsumeUpdateStoresAnew(event) ==
    /\ event.eventType \in {"post.updated", "reaction.updated"}
    /\ IF event.eventType = "post.updated"
       THEN /\ event.payload.id \in DOMAIN posts
            /\ posts' = With(posts, event.payload.id,
                             [author_id |-> event.payload.authorId,
                              text |-> event.payload.text,
                              embedding |-> EmbeddingOfText(event.payload.text),
                              created_at |-> Now, likes_count |-> 0])
            /\ reactions' = reactions
       ELSE /\ event.payload.id \in DOMAIN reactions
            /\ reactions' = With(reactions, event.payload.id,
                                 [reactions[event.payload.id] EXCEPT
                                     !.author_id = event.payload.authorId,
                                     !.type = event.payload.type,
                                     !.created_at = Now])
            /\ posts' = posts
    /\ UNCHANGED <<prefRows, redis, req, lastOp, preInv, streamVars>>

\* _consume on a post.updated or reaction.updated message.
ConsumeUpdate(event) ==
    /\ event.eventType \in {"post.updated", "reaction.updated"}
    /\ Consume(event)

NextUpdates == \E e \in UpdateEvents : ConsumeUpdate(e)

SpecUpdates == InitUpdates /\ [][NextUpdates]_vars

\* C33: handling an update event keeps the ids of both tables; in a post it
\* changes at most text and embedding (author_id and created_at stay), and
\* in a reaction at most type (target_id, author_id and created_at stay).
C33_UpdatesChangeOnlyOwnedFields ==
    [][/\ DOMAIN posts' = DOMAIN posts
       /\ \A p \in DOMAIN posts :
             [posts'[p] EXCEPT !.text = posts[p].text,
                               !.embedding = posts[p].embedding] = posts[p]
       /\ DOMAIN reactions' = DOMAIN reactions
       /\ \A i \in DOMAIN reactions :
             [reactions'[i] EXCEPT !.type = reactions[i].type] = reactions[i]]_vars

\* A post.updated has given post 1 a text no stored post started with, then
\* a reaction.updated has changed a reaction of u1; both rows carry a
\* creation time of the stored rows.
C33_Witness ==
    /\ 1 \in DOMAIN posts
    /\ posts[1].text = "b"
    /\ posts[1].embedding = Encode("b")
    /\ posts[1].created_at = Now - 61
    /\ lastOp["u1"] = "reaction.event"
    /\ \E i \in DOMAIN reactions :
          reactions[i].author_id = "u1" /\ reactions[i].created_at = Now - 30

\* ------------------------------------------------- the loop after a failure
\* `async for message in self.consumer` takes a message whenever one is
\* there: the loop is weakly fair.
SpecStoreFaultsFair ==
    InitStoreFaults /\ [][NextStoreFaults]_vars /\ WF_vars(NextStoreFaults)

\* C34: every message of the stream is handed to its handler in the end,
\* also the messages that follow one whose handler raised: the loop is
\* never stopped by a handler's exception.
C34_HandlerExceptionDoesNotStopConsumer ==
    <>(\A i \in DOMAIN stream : delivered[i] = 1)

\* The handler of a message raised, and a post.created that came later in
\* the stream has been handled and has stored its post.
C34_Witness ==
    \E i, j \in 1..offset :
        /\ i < j
        /\ stream[i].store = "fails"
        /\ stream[j].store = "ok"
        /\ stream[j].eventType = "post.created"
        /\ delivered[j] = 1
        /\ stream[j].payload.id \in DOMAIN posts

\* ------------------------------------------- reactions from the stream
\* The reaction.created messages of type LIKE by a user on a stored post
\* with a present embedding, whose id is not stored yet.
LikesOfStoredPosts(user_id) ==
    {e \in ReactionEvents :
        /\ e.eventType = "reaction.created"
        /\ e.payload.type = LIKE
        /\ e.payload.authorId = user_id
        /\ e.payload.id \notin DOMAIN reactions
        /\ e.payload.targetId \in DOMAIN posts
        /\ posts[e.payload.targetId].embedding # None}

\* C37: once a reaction.created of type LIKE by a user on a stored post with
\* a present embedding has been handled, the reaction is a stored row, and
\* the recomputation for a user who had no signal before gives a present
\* vector.
C37_IngestedReactionIsCounted ==
    \A u \in Users : \A e \in LikesOfStoredPosts(u) :
        LET out == HandleEvent(Db(posts, reactions, prefRows), e)
        IN  /\ e.payload.id \in DOMAIN out.db.reactions
            /\ ComputePreference(u, reactions, posts) = None
               => ComputePreference(u, out.db.reactions, out.db.posts) # None

\* --------------------------------- create_reaction and the stored preference
\* C38: when create_reaction has stored a reaction, no user_preferences row
\* of the author is left, so that the next get_user_preference_embedding of
\* the author computes from the reactions that include the new one.
C38_CreateReactionInvalidatesPreference ==
    [][\A i \in ReactionIds, d \in ReactionData :
          (CreateReaction(i, d) /\ reactions' # reactions)
          => d.author_id \notin DOMAIN prefRows']_vars

\* ------------------------------------------- the fallback and reacted posts
\* The post.updated messages.
PostUpdates == {e \in UpdateEvents : e.eventType = "post.updated"}

\* A call of the recommender's get_recommendations on stored tables, while
\* the consumer handles post.updated messages.  The reactions stay as they
\* were stored before the call.
NextFallback ==
    \/ \E u \in Users : GetNoClient(1, u)
    \/ \E r \in Reqs : GetSelectReactions(r)
    \/ \E r \in Reqs : GetSelectLiked(r)
    \/ \E r \in Reqs : GetSelectDisliked(r)
    \/ \E r \in Reqs : GetSaveSelect(r)
    \/ \E r \in Reqs : GetSaveCommit(r)
    \/ \E r \in Reqs, limit \in Limits, exclude_author_posts \in BOOLEAN,
          rows \in UNION {Deliveries(ids) : ids \in SUBSET PostIds} :
          GetRecommendations(r, limit, exclude_author_posts, rows)
    \/ \E e \in PostUpdates : ConsumeUpdate(e)

SpecFallback == InitUpdates /\ [][NextFallback]_vars

\* The posts the user of the call has a stored reaction to.
ReactedByUserOf(r) ==
    {reactions[j].target_id : j \in UserReactions(req[r].user_id, reactions)}

C40_PostEventsKeepPreferences ==
    [][/\ posts' # posts => (prefRows' = prefRows /\ redis' = redis)
       /\ \A e \in PostEvents(Texts) :
             HandleEvent(Db(posts, reactions, prefRows), e).db.prefs = prefRows]_vars

\* The preference of u1, computed from the embedding of the post that u1
\* reacted to, is in user_preferences and in Redis after a post message
\* has deleted that post or taken its text away.
C40_Witness ==
    /\ "u1" \in DOMAIN prefRows
    /\ prefRows["u1"].preference_embedding # None
    /\ "u1" \in DOMAIN redis
    /\ lastOp["u1"] = "post"
    /\ \E j \in UserReactions("u1", reactions) :
          \/ reactions[j].target_id \notin DOMAIN posts
          \/ posts[reactions[j].target_id].embedding = None

====
